---- MODULE Spec2Model ----
(***************************************************************************)
(* Job orchestration of the vendor-customer discovery service.             *)
(*                                                                         *)
(* The model follows src/app.py: the submission handler analyze, the       *)
(* single background_worker thread with its per-source callbacks, and the  *)
(* status query job_status.  The threads interleave between the Python    *)
(* statements that touch the shared tables (a dict store, a list append,   *)
(* a dict.update, a dict.copy, a Queue.put/get); in the worker a store     *)
(* into the job record and the log appends that follow it are one step.    *)
(*                                                                         *)
(* A job id is the string f"{vendor_name}_{int(time.time())}".  The        *)
(* formatting is injective on (vendor_name, second), because the part      *)
(* after the last underscore is the decimal second, so an id is modelled   *)
(* as the pair <<vendor_name, second>>.  An id of a status query is any    *)
(* string; it is modelled by the parts job_id.split('_') yields, so a      *)
(* string without underscore is a tuple of one part.                       *)
(*                                                                         *)
(* Source collaborators (the scrapers) are the environment of the          *)
(* orchestrator: a call may invoke its callback with any of the payloads   *)
(* enumerated below, and then returns a list or raises.  With the          *)
(* scrape_vendor_site of src/src/scrapers/vendor_site.py:20, which has no  *)
(* progress_callback parameter, the call at app.py:131 takes the raising   *)
(* outcome (TypeError).                                                    *)
(*                                                                         *)
(* Log entries carry a time stamp in the code; it is read by nobody and    *)
(* is left out of the entries here.                                        *)
(***************************************************************************)
EXTENDS Integers, Sequences, FiniteSets, TLC

(***************************************************************************)
(* Bounds of the model: MaxEvents actions of the environment (see          *)
(* MayHappen), MaxSpan changes of a job while one status query runs, and   *)
(* MaxLag writes of the worker while one analyze request runs.             *)
(***************************************************************************)
MaxEvents == 1
MaxSpan == 1
MaxLag == 1
(* Bounds of the URL validator's specification: MaxCalls calls of          *)
(* validate_url, and MaxElapse jumps of the clock by half a TTL.           *)
MaxCalls == 2
MaxElapse == 2
(* Bound of the combining's specification: MaxItems records in the lists   *)
(* of all sources together.                                                *)
MaxItems == 2

(***************************************************************************)
(* Program constants.                                                      *)
(***************************************************************************)
DefaultMaxResults == 20
MinMaxResults == 1
MaxMaxResults == 100
LogWindow == 50
NumWorkers == 1
DNS_CACHE_TTL == 3600
HTTP_CACHE_TTL == 3600

Vendors == {"acme"}
Reqs == 1..(MaxEvents + 1)
(* a second worker thread is started                                       *)
Workers_Two == 1..(NumWorkers + 1)

(* threading.Thread(target=background_worker, daemon=True).start()         *)
Workers == 1..NumWorkers

(* request.form.get('max_results', 20): either an integer or text that    *)
(* int() rejects.                                                         *)
FormMaxResults == {[isInt |-> TRUE, val |-> 1]}

(* The form's vendor_name; "" stands for a missing or empty field.        *)
FormVendors == Vendors \cup {""}

Min(a, b) == IF a < b THEN a ELSE b
Max(a, b) == IF a > b THEN a ELSE b

(* max(1, min(100, int(x))), 20 when int() raises.                         *)
ParseMaxResults(f) ==
    IF f.isInt THEN Max(MinMaxResults, Min(MaxMaxResults, f.val))
    ELSE DefaultMaxResults

(* f"{vendor_name}_{int(time.time())}"                                     *)
MakeJobId(vendor_name, now) == <<vendor_name, now>>

(* dict.update / item stores on a dict: the keys of upd win.               *)
DictUpdate(d, upd) == upd @@ d

HasKey(d, k) == k \in DOMAIN d

(* some_list[-50:]                                                         *)
LastN(s, n) == IF Len(s) <= n THEN s ELSE SubSeq(s, Len(s) - n + 1, Len(s))

LogEntry(type, message) == [type |-> type, message |-> message]

Terminal == {"completed", "failed"}
Lifecycle == {"queued", "processing", "completed", "failed"}

VARIABLES
    clock,          \* int(time.time())
    job_results,    \* app.job_results: job id -> record (a dict)
    job_logs,       \* app.job_logs: job id -> list of log entries
    job_queue,      \* app.job_queue: FIFO of (job_id, vendor_name, max_results)
    unfinished,     \* app.job_queue.unfinished_tasks
    dns_cache,      \* url_validator._dns_cache: host -> cached outcome
    dns_cache_expiry,   \* url_validator._dns_cache_expiry: host -> time
    http_cache,         \* url_validator._http_cache: url -> cached outcome
    http_cache_expiry,  \* url_validator._http_cache_expiry: url -> time
    vpc, vargs, vres,   \* the threads running validate_url
    vdone,          \* history: what the running call of a thread has done
    vprev,          \* history: a thread's last call, when it was the same call
    looked,         \* history: when each host was last looked up or probed
    ncalls,         \* environment: calls of validate_url so far
    source_data,    \* the lists the sources returned to one run of the combining
    combined_data,  \* the list the combining built from them
    combine_done,   \* whether the combining has run
    form_max_results,   \* request.form.get('max_results', 20) of the job
    formatted_results,  \* background_worker: formatted_results
    results_pc,     \* the worker's position between combining and storing
    adata, amax, akey,      \* analyze_with_grok: data, max_results, API key set
    apc, aretry,            \* analyze_with_grok: position, loop variable retry
    apartial, aresult,      \* analyze_with_grok: partial_results, returned list
    apath,          \* history: the return statement analyze_with_grok left by
    acalls,         \* history: the requests sent to the analysis service
    acallback,      \* analyze_with_grok: whether progress_callback is given
    aevents,        \* history: the calls of progress_callback, in order
    hung,           \* environment: the dependencies that no longer answer
    bpc, bcall,     \* the worker's position and the call it is blocked in
    bjobs, burls,   \* entries left in the queue, URLs left to validate
    worker_job_results, worker_job_logs,   \* worker.py: job_results, job_logs
    to_remove, cpc, \* cleanup_old_jobs: its list and its position
    cremoved,       \* history: the jobs cleanup_old_jobs has deleted
    rpc, rjob,      \* the request threads running analyze
    wpc, wjob, wsrc, wdata, wexc,        \* the worker thread(s)
    ppc, pjob, presp, pattached,   \* the request thread running job_status
    nevents,        \* environment: events so far (see MayHappen)
    lag,            \* scheduling: worker writes made while analyze is running
    window,         \* history: job states that existed while the query ran
    taken           \* history: how often each queue entry was dequeued

combineVars == <<source_data, combined_data, combine_done, form_max_results,
                 formatted_results, results_pc>>

analyzeVars == <<adata, amax, akey, apc, aretry, apartial, aresult, apath, acalls,
                 acallback, aevents>>

(* the variables of the components that run on their own                   *)
blockVars == <<hung, bpc, bcall, bjobs, burls>>

cleanupVars == <<worker_job_results, worker_job_logs, to_remove, cpc, cremoved>>

otherVars == <<analyzeVars, blockVars, cleanupVars>>

valVars == <<http_cache, http_cache_expiry, vpc, vargs, vres, vdone, vprev, looked,
             ncalls>>

vars == <<clock, job_results, job_logs, job_queue, unfinished, dns_cache, rpc, rjob,
          wpc, wjob, wsrc, wdata, wexc,
          ppc, pjob, presp, pattached, nevents, lag, window, taken,
          dns_cache_expiry, valVars, combineVars, otherVars>>

reqVars == <<rpc, rjob>>
workerVars == <<wpc, wjob, wsrc, wdata, wexc, lag>>
pollVars == <<ppc, pjob, presp, pattached>>

JobIds == {MakeJobId(v, t) : v \in Vendors, t \in 0..MaxEvents}

NoJobData == [job_id |-> MakeJobId("", 0), vendor_name |-> "", max_results |-> 0]
NoEntry == [ticket |-> 0] @@ NoJobData
NoResponse == [status |-> "none"]
NoData == [combined |-> <<>>, enhanced_metrics |-> <<>>, formatted |-> <<>>]

(* What job_status would return for job id at this instant: the record    *)
(* with the last LogWindow log entries under the key 'logs'.              *)
Response(jr, jl, id) ==
    IF id \in DOMAIN jl THEN [logs |-> LastN(jl[id], LogWindow)] @@ jr[id]
    ELSE jr[id]

(* History kept while a status query is in flight: every state the        *)
(* queried job has been in since the query copied the record.             *)
InFlight == ppc \in {"logs", "serialize"}

WindowAfter(jr, jl) ==
    IF InFlight /\ pjob \in DOMAIN jr
    THEN window \cup {Response(jr, jl, pjob)}
    ELSE window

(* at most MaxSpan changes of the queried job while one query runs         *)
SpanOK(jr, jl) == Cardinality(WindowAfter(jr, jl)) <= MaxSpan + 1

(* The threads that call validate_url, and their state between calls.     *)
Callers == {1, 2}
None == "None"
NoArgs == [url |-> None, validate_dns |-> FALSE, validate_http |-> FALSE,
           clean_only |-> FALSE]
NoResult == [is_valid |-> FALSE, structure_valid |-> FALSE, dns_valid |-> FALSE,
             http_valid |-> FALSE, cleaned_url |-> None, reason |-> None]
NotDone == [dns_lookup |-> FALSE, dns_cached |-> FALSE, http_probe |-> FALSE,
            http_cached |-> FALSE, outcome |-> FALSE]
NoCall == [args |-> NoArgs, res |-> NoResult]

ProgramInit ==
    /\ clock = 0
    /\ dns_cache_expiry = <<>>
    /\ http_cache = <<>>
    /\ http_cache_expiry = <<>>
    /\ vpc = [t \in Callers |-> "idle"]
    /\ vargs = [t \in Callers |-> NoArgs]
    /\ vres = [t \in Callers |-> NoResult]
    /\ vdone = [t \in Callers |-> NotDone]
    /\ vprev = [t \in Callers |-> NoCall]
    /\ looked = [dns |-> <<>>, http |-> <<>>]
    /\ ncalls = 0
    /\ job_results = <<>>
    /\ job_logs = <<>>
    /\ job_queue = <<>>
    /\ unfinished = 0
    /\ dns_cache = <<>>
    /\ rpc = [r \in Reqs |-> "idle"]
    /\ rjob = [r \in Reqs |-> NoJobData]
    /\ wpc = [w \in Workers |-> "get"]
    /\ wjob = [w \in Workers |-> NoEntry]
    /\ wsrc = [w \in Workers |-> 0]
    /\ wdata = [w \in Workers |-> NoData]
    /\ wexc = [w \in Workers |-> ""]
    /\ ppc = "idle"
    /\ pjob = MakeJobId("", 0)
    /\ presp = NoResponse
    /\ pattached = FALSE
    /\ nevents = 0
    /\ lag = 0
    /\ window = {}
    /\ taken = <<>>

(* no job is between the combining and the storing of its results         *)
ResultsIdle ==
    /\ form_max_results = [isInt |-> FALSE, val |-> 0]
    /\ formatted_results = <<>>
    /\ results_pc = "idle"

(* no call of analyze_with_grok is under way                               *)
AnalyzeIdle ==
    /\ adata = <<>>
    /\ amax = 0
    /\ akey = FALSE
    /\ apc = "idle"
    /\ aretry = 0
    /\ apartial = <<>>
    /\ aresult = <<>>
    /\ apath = ""
    /\ acalls = <<>>
    /\ acallback = FALSE
    /\ aevents = <<>>

(* the worker of the blocking calls is not running                         *)
BlockIdle ==
    /\ hung = {}
    /\ bpc = "idle"
    /\ bcall = [kind |-> "", timeout |-> <<>>]
    /\ bjobs = 0
    /\ burls = 0

(* worker.py is not running                                                *)
CleanupIdle ==
    /\ worker_job_results = <<>>
    /\ worker_job_logs = <<>>
    /\ to_remove = {}
    /\ cpc = "off"
    /\ cremoved = {}

OthersIdle == AnalyzeIdle /\ BlockIdle /\ CleanupIdle

Init ==
    /\ ProgramInit
    /\ source_data = <<>>
    /\ combined_data = <<>>
    /\ combine_done = FALSE
    /\ ResultsIdle
    /\ OthersIdle

(* The environment acts at most MaxEvents times in a behaviour: a second   *)
(* of the clock passes, a further request arrives, a source invokes its    *)
(* callback, a source or the suggestion service returns a result.          *)
MayHappen(n) ==
    /\ nevents + n <= MaxEvents
    /\ nevents' = nevents + n

(* time.time() advances.                                                   *)
Tick ==
    /\ MayHappen(1)
    /\ clock' = clock + 1
    /\ UNCHANGED <<job_results, job_logs, job_queue, unfinished, dns_cache,
                   dns_cache_expiry, valVars, combineVars, otherVars, reqVars,
                   workerVars, pollVars, window, taken>>

(***************************************************************************)
(* analyze (POST /analyze), one request thread per submission.             *)
(***************************************************************************)
NewJobRecord(vendor_name, max_results, now) ==
    [status |-> "queued",
     progress |-> [step |-> 5, message |-> "Waiting to process"],
     metrics |-> [pages_checked |-> 0, customer_links_found |-> 0,
                  companies_found |-> 0, unique_companies |-> 0,
                  target_count |-> max_results],
     vendor_name |-> vendor_name,
     max_results |-> max_results,
     start_time |-> now]

(* request r arrives; the requests are numbered in the order of arrival    *)
CanStart(r) ==
    /\ rpc[r] = "idle"
    /\ IF r = 1 THEN MayHappen(0) ELSE rpc[r - 1] # "idle" /\ MayHappen(1)

(* if not vendor_name: return 400                                          *)
AnalyzeReject(r) ==
    /\ CanStart(r)
    /\ \E vendor_name \in FormVendors :
          /\ vendor_name = ""
          /\ rpc' = [rpc EXCEPT ![r] = "rejected"]
    /\ UNCHANGED <<clock, job_results, job_logs, job_queue, unfinished, dns_cache, dns_cache_expiry, valVars, combineVars, otherVars, rjob,
                   workerVars, pollVars, window, taken>>

(* job_id = f"{vendor_name}_{int(time.time())}";                           *)
(* app.job_results[job_id] = {...}                                         *)
AnalyzeCreate(r) ==
    /\ CanStart(r)
    /\ \E vendor_name \in FormVendors, form \in FormMaxResults :
          /\ vendor_name # ""
          /\ LET max_results == ParseMaxResults(form)
                 job_id == MakeJobId(vendor_name, clock)
             IN /\ rjob' = [rjob EXCEPT ![r] = [job_id |-> job_id,
                                               vendor_name |-> vendor_name,
                                               max_results |-> max_results]]
                /\ job_results' = (job_id :> NewJobRecord(vendor_name, max_results, clock))
                                     @@ job_results
                \* a query that holds a copy of the replaced record keeps the
                \* replaced metrics dict, which nobody writes any more
                /\ IF ppc \in {"logs", "serialize"} /\ pjob = job_id /\ pattached
                   THEN /\ pattached' = FALSE
                        /\ presp' = [presp EXCEPT !.metrics = job_results[job_id].metrics]
                   ELSE UNCHANGED <<pattached, presp>>
    /\ rpc' = [rpc EXCEPT ![r] = "logs"]
    /\ SpanOK(job_results', job_logs)
    /\ window' = WindowAfter(job_results', job_logs)
    /\ lag' = 0
    /\ UNCHANGED <<clock, job_logs, job_queue, unfinished, dns_cache, dns_cache_expiry, valVars, combineVars, otherVars,
                   wpc, wjob, wsrc, wdata, wexc, ppc, pjob, taken>>

(* the handler without its log-list statement                              *)
AnalyzeInitLogs_Skipped(r) ==
    /\ rpc[r] = "logs"
    /\ rpc' = [rpc EXCEPT ![r] = "put"]
    /\ UNCHANGED <<clock, job_results, job_logs, job_queue, unfinished, dns_cache, dns_cache_expiry, valVars, combineVars, otherVars, rjob,
                   workerVars, nevents, pollVars, window, taken>>

(* app.job_logs[job_id] = []                                               *)
AnalyzeInitLogs(r) ==
    /\ rpc[r] = "logs"
    /\ job_logs' = (rjob[r].job_id :> <<>>) @@ job_logs
    /\ rpc' = [rpc EXCEPT ![r] = "put"]
    /\ SpanOK(job_results, job_logs')
    /\ window' = WindowAfter(job_results, job_logs')
    /\ UNCHANGED <<clock, job_results, job_queue, unfinished, dns_cache, dns_cache_expiry, valVars, combineVars, otherVars, rjob,
                   workerVars, nevents, pollVars, taken>>

(* app.job_queue.put((job_id, vendor_name, max_results))                   *)
AnalyzePut(r) ==
    /\ rpc[r] = "put"
    /\ job_queue' = Append(job_queue, [ticket |-> r] @@ rjob[r])
    /\ unfinished' = unfinished + 1
    /\ taken' = (r :> 0) @@ taken
    /\ rpc' = [rpc EXCEPT ![r] = "log"]
    /\ UNCHANGED <<clock, job_results, job_logs, dns_cache, dns_cache_expiry, valVars, combineVars, otherVars, rjob,
                   workerVars, nevents, pollVars, window>>

(* app.job_logs[job_id].append({'type': 'info', 'message': "Added ..."})   *)
AnalyzeLog(r) ==
    /\ rpc[r] = "log"
    /\ job_logs' = [job_logs EXCEPT ![rjob[r].job_id] =
                       Append(@, LogEntry("info", "Added to processing queue"))]
    /\ rpc' = [rpc EXCEPT ![r] = "done"]
    /\ SpanOK(job_results, job_logs')
    /\ window' = WindowAfter(job_results, job_logs')
    /\ lag' = 0
    /\ UNCHANGED <<clock, job_results, job_queue, unfinished, dns_cache, dns_cache_expiry, valVars, combineVars, otherVars, rjob,
                   wpc, wjob, wsrc, wdata, wexc, nevents, pollVars, taken>>


(***************************************************************************)
(* What the source collaborators report and return.                        *)
(***************************************************************************)
Get(d, k, default) == IF k \in DOMAIN d THEN d[k] ELSE default

(* status.startswith('error') on the statuses the sources send.            *)
StartsWithError(status) == status \in {"error", "error_processing_page"}

(* The sources in the order background_worker calls them; 0 is the vendor  *)
(* site.                                                                   *)
SourceNames == <<"enhanced_search", "featured_customers", "google_search",
                 "trust_radius", "peerspot", "builtwith", "publicwww">>
NumSources == 7

(* site_metrics handed to vendor_site_callback                             *)
VendorSitePayloads ==
    {[status |-> "vendor_site_started", pages_checked |-> 0,
      customer_links_found |-> 0, unique_customer_pages |-> 0],
     [status |-> "vendor_site_customer_pages_found", pages_checked |-> 1,
      customer_links_found |-> 20, unique_customer_pages |-> 2]}

(* metrics.copy() handed to enhanced_search_callback by                    *)
(* enhanced_vendor_search (enhanced_search.py:266-475)                     *)
EnhancedPayloads(max_results) ==
    {[status |-> st, companies_found |-> n, target_count |-> max_results] :
        st \in {"processing_results", "complete", "failed"}, n \in {1}}

(* metrics handed to the callbacks of the other six sources; "started"     *)
(* stands for the source's own '<source>_started'                          *)
SectionPayloads(i, max_results) ==
    IF SourceNames[i] = "google_search"
    THEN {[status |-> st, customers_found |-> 0, target_count |-> 0] :
             st \in {"success", "error"}}
    ELSE {[status |-> st, customers_found |-> n, target_count |-> max_results] :
             st \in {"complete", "error"}, n \in {1}}

CandGlobex == [name |-> "Globex", url |-> "globex.com"]
CandGlobexLower == [name |-> "globex", url |-> ""]
(* a page of the vendor's own site names the vendor                        *)
CandSelf == [name |-> "Acme", url |-> "acme.com"]
Candidates == {CandGlobex, CandGlobexLower, CandSelf}

(* str.lower() on the names that occur                                     *)
Lower(name) ==
    CASE name = "Globex" -> "globex"
      [] name = " Globex" -> " globex"
      [] name = "Initech" -> "initech"
      [] name = "Acme" -> "acme"
      [] OTHER -> name

(* str.strip() on the names that occur                                     *)
Strip(name) ==
    CASE name = " globex" -> "globex"
      [] name = " Globex" -> "Globex"
      [] OTHER -> name

(* f"{name.lower().replace(' ', '')}.com" on the names that occur           *)
SynthesizedUrl(name) ==
    CASE Lower(name) = "globex" -> "globex.com"
      [] Lower(name) = " globex" -> "globex.com"
      [] Lower(name) = "initech" -> "initech.com"
      [] Lower(name) = "acme" -> "acme.com"
      [] OTHER -> ""

(* The lists a source may return.                                          *)
SourceLists == {<<>>} \cup {<<c>> : c \in Candidates}

NamesOf(items) == {Lower(items[k].name) : k \in 1..Len(items)}

RECURSIVE Flatten(_)
Flatten(lists) ==
    IF lists = <<>> THEN <<>> ELSE Head(lists) \o Flatten(Tail(lists))

(* int(min(1.0, found / target) * 20)                                      *)
RatioStep(found, target) == (20 * Min(found, target)) \div target

(***************************************************************************)
(* The callbacks of background_worker.  Each returns the job record and    *)
(* the job's log list after the callback has run.                          *)
(***************************************************************************)
VendorSiteMessage(p) ==
    CASE p.status = "vendor_site_started" -> "Starting vendor site analysis"
      [] p.status = "vendor_site_customer_pages_found" -> "Found unique customer pages"
      [] p.status = "failed" -> "Error"
      [] OTHER -> "Processing vendor site"

VendorSiteLog(p) ==
    CASE p.status = "vendor_site_customer_pages_found"
            /\ Get(p, "unique_customer_pages", 0) > 0 ->
                <<LogEntry("info", "Found customer pages")>>
      [] p.status = "failed" -> <<LogEntry("error", "Error with vendor site")>>
      [] OTHER -> <<>>

VendorSiteStep(p) == Min(40, 10 + Get(p, "customer_links_found", 0) * 2)

vendor_site_callback(rec, logs, p) ==
    LET m0 == IF HasKey(rec, "metrics") THEN rec.metrics ELSE <<>>
        m1 == DictUpdate(m0,
                 [pages_checked |-> Get(p, "pages_checked", 0),
                  customer_links_found |->
                      Get(p, "unique_customer_pages", Get(p, "customer_links_found", 0))])
    IN [rec |-> DictUpdate(rec,
                   [metrics |-> m1,
                    progress |-> [step |-> VendorSiteStep(p),
                                  message |-> VendorSiteMessage(p)]]),
        logs |-> logs \o VendorSiteLog(p)]

EnhancedStep(p) ==
    IF p.status = "complete" THEN 60
    ELSE IF StartsWithError(p.status) THEN 60
    ELSE IF HasKey(p, "companies_found") /\ HasKey(p, "target_count") /\ p.target_count > 0
         THEN 40 + RatioStep(p.companies_found, p.target_count)
    ELSE 40

EnhancedMessage(p) ==
    CASE p.status = "accessing_vendor_site" -> "Accessing website"
      [] p.status = "processing_results" -> "Processing results"
      [] p.status = "complete" -> "Enhanced search complete"
      [] StartsWithError(p.status) -> "Error"
      [] OTHER -> "Processing"

EnhancedLog(p) ==
    CASE p.status = "accessing_vendor_site" -> <<LogEntry("info", "Accessing vendor site")>>
      [] p.status = "processing_results" -> <<LogEntry("success", "Enhanced search: found companies")>>
      [] p.status = "complete" -> <<LogEntry("success", "Enhanced search complete")>>
      [] StartsWithError(p.status) \/ p.status = "failed" ->
            <<LogEntry("error", "Enhanced search error")>>
      [] OTHER -> <<>>

(* app.job_results[job_id]['status'] = status if status != 'complete'      *)
(*                                     else 'running'                      *)
EnhancedStatus(p) == IF p.status # "complete" THEN p.status ELSE "running"

(* "Don't decrease progress"                                               *)
RaiseProgress(rec, step, message) ==
    IF step > Get(rec.progress, "step", 0)
    THEN [progress |-> [step |-> step, message |-> message]]
    ELSE <<>>

enhanced_search_callback(rec, logs, p) ==
    LET m0 == IF HasKey(rec, "metrics") THEN rec.metrics ELSE <<>>
        r1 == DictUpdate(rec, [metrics |-> DictUpdate(m0, p),
                               status |-> EnhancedStatus(p)])
    IN [rec |-> DictUpdate(r1, RaiseProgress(r1, EnhancedStep(p), EnhancedMessage(p))),
        logs |-> logs \o EnhancedLog(p)]

IsGoogle(i) == SourceNames[i] = "google_search"

SectionIsError(i, p) ==
    IF IsGoogle(i) THEN p.status \in {"error", "failed"}
    ELSE p.status = "error" \/ StartsWithError(p.status) \/ p.status = "failed"

SectionIsDone(i, p) ==
    IF IsGoogle(i) THEN p.status \in {"success", "complete"}
    ELSE p.status = "complete"

SectionStep(i, p) ==
    IF IsGoogle(i)
    THEN IF p.status \in {"success", "complete", "empty", "error", "failed"} THEN 60 ELSE 40
    ELSE IF p.status = "complete" THEN 60
    ELSE IF StartsWithError(p.status) \/ p.status = "failed" THEN 60
    ELSE IF HasKey(p, "customers_found") /\ HasKey(p, "target_count") /\ p.target_count > 0
         THEN 40 + RatioStep(p.customers_found, p.target_count)
    ELSE 40

SectionMessage(i, p) ==
    CASE p.status = "started" -> "Starting search"
      [] SectionIsDone(i, p) -> "Search complete"
      [] SectionIsError(i, p) -> "Search error"
      [] OTHER -> "Processing source"

SectionLog(i, p) ==
    CASE p.status = "started" -> <<LogEntry("info", "Starting search")>>
      [] SectionIsDone(i, p) -> <<LogEntry("success", "Search complete")>>
      [] SectionIsError(i, p) -> <<LogEntry("error", "Search error")>>
      [] OTHER -> <<>>

(* featured_customers_callback, google_search_callback,                    *)
(* trust_radius_callback, peerspot_callback, builtwith_callback,           *)
(* publicwww_callback: the same code with another metrics section          *)
section_callback(i, rec, logs, p) ==
    LET key == SourceNames[i]
        m0 == IF HasKey(rec, "metrics") THEN rec.metrics ELSE <<>>
        sec0 == IF HasKey(m0, key) THEN m0[key] ELSE <<>>
        m1 == DictUpdate(m0, (key :> DictUpdate(sec0, p)))
        r1 == DictUpdate(rec, [metrics |-> m1])
        r2 == IF ~SectionIsDone(i, p) /\ SectionIsError(i, p)
              THEN DictUpdate(r1, [status |-> "running"])
              ELSE r1
    IN [rec |-> DictUpdate(r2, RaiseProgress(r2, SectionStep(i, p), SectionMessage(i, p))),
        logs |-> logs \o SectionLog(i, p)]

(***************************************************************************)
(* Combining and formatting the candidates (app.py:815-905).               *)
(***************************************************************************)
(* a new record is put in front of the combined list                      *)
RECURSIVE AddUnique_Prepends(_, _, _)
AddUnique_Prepends(combined, existing_names, items) ==
    IF items = <<>> THEN combined
    ELSE LET item == Head(items)
             key == Lower(item.name)
         IN IF key \notin existing_names
            THEN AddUnique_Prepends(<<item>> \o combined, existing_names \cup {key},
                                    Tail(items))
            ELSE AddUnique_Prepends(combined, existing_names, Tail(items))

RECURSIVE AddUnique(_, _, _)
(* for item in data: if item.get('name', '').lower() not in existing_names *)
AddUnique(combined, existing_names, items) ==
    IF items = <<>> THEN combined
    ELSE LET item == Head(items)
             key == Lower(item.name)
         IN IF key \notin existing_names
            THEN AddUnique(Append(combined, item), existing_names \cup {key}, Tail(items))
            ELSE AddUnique(combined, existing_names, Tail(items))

(* combined_data = vendor_data.copy(), then the other lists in call order  *)
CombineData(lists) ==
    IF lists = <<>> THEN <<>>
    ELSE AddUnique(Head(lists), NamesOf(Head(lists)), Flatten(Tail(lists)))

(* _validate_url_structure on the URLs that occur: the cleaned host, or    *)
(* "" when the structure is rejected                                       *)
CleanedUrl(url) ==
    CASE url = "globex.com" -> "globex.com"
      [] url = "www.globex.com/about" -> "globex.com"
      [] url = "initech.com" -> "initech.com"
      [] url = "acme.com" -> "acme.com"
      [] OTHER -> ""

StructureValid(url) == CleanedUrl(url) # ""

Hosts == {"globex.com", "initech.com", "acme.com"}

RECURSIVE FormatResults(_, _, _)
(* for item in combined_data: keep the item when its URL is present, has   *)
(* a valid structure and resolves                                          *)
FormatResults(combined, vendor_name, dns) ==
    IF combined = <<>> THEN <<>>
    ELSE LET item == Head(combined)
             rest == FormatResults(Tail(combined), vendor_name, dns)
         IN IF item.url # "" /\ StructureValid(item.url) /\ dns[CleanedUrl(item.url)]
            THEN <<[competitor |-> vendor_name,
                    customer_name |-> item.name,
                    customer_url |-> CleanedUrl(item.url),
                    validation |-> [structure_valid |-> TRUE, dns_valid |-> TRUE,
                                    http_valid |-> FALSE]]>> \o rest
            ELSE rest

(* the hosts the formatting loop looks up                                  *)
HostsOf(combined) ==
    {CleanedUrl(combined[k].url) : k \in {j \in 1..Len(combined) :
        combined[j].url # "" /\ StructureValid(combined[j].url)}}

(* the vendor of the job whose results are made                            *)
ResultsVendor == CHOOSE v \in Vendors : TRUE

(* formatted_results[:max_results] is left out                             *)
Truncate_Keeps(s, n) == s

(* formatted_results[:max_results]                                         *)
Truncate(s, n) == IF Len(s) > n THEN SubSeq(s, 1, n) ELSE s

(* what the model of the suggestion service answers                        *)
SuggestionAnswers == {<<>>, <<[name |-> "Initech", domain |-> "initech.com"]>>,
                      <<[name |-> "globex", domain |-> "globex.com"]>>}

RECURSIVE AdditionalResults(_, _, _, _, _)
(* generate_additional_suggestions: the loop over the parsed suggestions   *)
AdditionalResults(vendor_name, existing_names, count_needed, suggestions, acc) ==
    IF suggestions = <<>> \/ Len(acc) >= count_needed THEN acc
    ELSE LET sg == Head(suggestions)
         IN IF Lower(sg.name) \in existing_names
            THEN AdditionalResults(vendor_name, existing_names, count_needed,
                                   Tail(suggestions), acc)
            ELSE IF StructureValid(sg.domain)
            THEN AdditionalResults(vendor_name, existing_names \cup {Lower(sg.name)},
                    count_needed, Tail(suggestions),
                    Append(acc, [competitor |-> vendor_name,
                                 customer_name |-> sg.name,
                                 customer_url |-> CleanedUrl(sg.domain),
                                 source |-> "AI Generated",
                                 validation |-> [structure_valid |-> TRUE,
                                                 dns_valid |-> FALSE,
                                                 http_valid |-> FALSE]]))
            ELSE AdditionalResults(vendor_name, existing_names, count_needed,
                                   Tail(suggestions), acc)

(* result["source"] = "Scraped" for the results that have no source        *)
MarkScraped(results) ==
    [k \in 1..Len(results) |->
        IF HasKey(results[k], "source") THEN results[k]
        ELSE DictUpdate(results[k], [source |-> "Scraped"])]

(***************************************************************************)
(* background_worker (app.py:37-1006).  A store into the job record       *)
(* followed by appends to the job's log is one step; steps are separated  *)
(* wherever the code calls out or stores into the record again.           *)
(***************************************************************************)
Cur(w) == wjob[w].job_id

SetRec(w, upd) == [job_results EXCEPT ![Cur(w)] = DictUpdate(@, upd)]

AddLog(w, entries) == [job_logs EXCEPT ![Cur(w)] = @ \o entries]

MidAnalyze == \E r \in Reqs : rpc[r] \in {"logs", "put", "log"}

(* the worker thread is scheduled: at most MaxLag of its writes fall       *)
(* between the first and the last statement of a running analyze           *)
Scheduled ==
    /\ MidAnalyze => lag < MaxLag
    /\ lag' = IF MidAnalyze THEN lag + 1 ELSE lag

(* the worker moves on without touching the job tables                     *)
WorkerLocal(w, next) ==
    /\ wpc' = [wpc EXCEPT ![w] = next]
    /\ UNCHANGED <<clock, job_results, job_logs, unfinished, reqVars, pollVars,
                   lag, window>>

(* the worker stores into the job record and appends to the job's log      *)
WorkerWrite(w, jr, jl, next) ==
    /\ Scheduled
    /\ job_results' = jr
    /\ job_logs' = jl
    /\ wpc' = [wpc EXCEPT ![w] = next]
    /\ SpanOK(jr, jl)
    /\ window' = WindowAfter(jr, jl)
    /\ UNCHANGED <<clock, job_queue, unfinished, dns_cache, dns_cache_expiry, valVars, combineVars, otherVars, reqVars, wjob,
                   pollVars, taken>>

(* job_data = app.job_queue.get()                                          *)
Dequeue(w) ==
    /\ wpc[w] = "get"
    /\ job_queue # <<>>
    /\ wjob' = [wjob EXCEPT ![w] = Head(job_queue)]
    /\ job_queue' = Tail(job_queue)
    /\ taken' = [taken EXCEPT ![Head(job_queue).ticket] = @ + 1]
    /\ WorkerLocal(w, "start")
    /\ UNCHANGED <<dns_cache, dns_cache_expiry, valVars, combineVars, otherVars, wsrc, wdata, wexc, nevents>>

(* app.job_results[job_id]['status'] = 'processing';                       *)
(* app.job_logs[job_id].append("Starting analysis ...")                    *)
Start(w) ==
    /\ wpc[w] = "start"
    /\ WorkerWrite(w, SetRec(w, [status |-> "processing"]),
                   AddLog(w, <<LogEntry("info", "Starting analysis")>>), "begin_vendor")
    /\ UNCHANGED <<wsrc, wdata, wexc, nevents>>

(* progress = 20; log "Searching vendor website ..."                       *)
BeginVendor(w) ==
    /\ wpc[w] = "begin_vendor"
    /\ WorkerWrite(w, SetRec(w, [progress |-> [step |-> 20,
                                              message |-> "Searching vendor website"]]),
                   AddLog(w, <<LogEntry("info", "Searching vendor website")>>),
                   "vendor_site")
    /\ UNCHANGED <<wsrc, wdata, wexc, nevents>>

(* scrape_vendor_site(vendor_name, progress_callback=vendor_site_callback) *)
(* reports through the callback                                            *)
VendorSiteCallback(w) ==
    /\ wpc[w] = "vendor_site"
    /\ MayHappen(1)
    /\ \E p \in VendorSitePayloads :
          LET after == vendor_site_callback(job_results[Cur(w)], job_logs[Cur(w)], p)
          IN WorkerWrite(w, [job_results EXCEPT ![Cur(w)] = after.rec],
                         [job_logs EXCEPT ![Cur(w)] = after.logs], "vendor_site")
    /\ UNCHANGED <<wsrc, wdata, wexc>>

(* vendor_data = scrape_vendor_site(...)                                   *)
VendorSiteReturn(w) ==
    /\ wpc[w] = "vendor_site"
    /\ \E data \in SourceLists :
          /\ wdata' = [wdata EXCEPT ![w].combined = CombineData(<<data>>)]
          /\ MayHappen(Len(data))
    /\ WorkerLocal(w, "begin_searches")
    /\ UNCHANGED <<job_queue, dns_cache, dns_cache_expiry, valVars, combineVars, otherVars, wjob, wsrc, wexc, taken>>

(* a source call raises; control goes to the handler at app.py:980         *)
SourceRaise(w) ==
    /\ wpc[w] \in {"vendor_site", "source"}
    /\ wexc' = [wexc EXCEPT ![w] = IF wpc[w] = "vendor_site"
                                   THEN "scrape_vendor_site() got an unexpected keyword argument"
                                   ELSE "source error"]
    /\ WorkerLocal(w, "fail")
    /\ UNCHANGED <<job_queue, dns_cache, dns_cache_expiry, valVars, combineVars, otherVars, wjob, wsrc, wdata, nevents, taken>>

(* progress = 40; log "Running parallel searches ..." and the seven        *)
(* "Starting ... search" entries (app.py:134-141, 392-411)                 *)
BeginSearches(w) ==
    /\ wpc[w] = "begin_searches"
    /\ WorkerWrite(w, SetRec(w, [progress |-> [step |-> 40,
                                              message |-> "Running parallel searches"]]),
                   AddLog(w, <<LogEntry("info", "Running parallel searches")>>
                             \o [k \in 1..NumSources |-> LogEntry("info", SourceNames[k])]),
                   "source")
    /\ wsrc' = [wsrc EXCEPT ![w] = 1]
    /\ UNCHANGED <<wdata, wexc, nevents>>

(* enhanced_vendor_search reports through enhanced_search_callback         *)
EnhancedCallback(w) ==
    /\ wpc[w] = "source"
    /\ wsrc[w] = 1
    /\ MayHappen(1)
    /\ \E p \in EnhancedPayloads(wjob[w].max_results) :
          LET after == enhanced_search_callback(job_results[Cur(w)], job_logs[Cur(w)], p)
          IN WorkerWrite(w, [job_results EXCEPT ![Cur(w)] = after.rec],
                         [job_logs EXCEPT ![Cur(w)] = after.logs], "source")
    /\ UNCHANGED <<wsrc, wdata, wexc>>

(* one of the other six sources reports through its callback               *)
SectionCallback(w) ==
    /\ wpc[w] = "source"
    /\ wsrc[w] > 1
    /\ MayHappen(1)
    /\ \E p \in SectionPayloads(wsrc[w], wjob[w].max_results) :
          LET after == section_callback(wsrc[w], job_results[Cur(w)], job_logs[Cur(w)], p)
          IN WorkerWrite(w, [job_results EXCEPT ![Cur(w)] = after.rec],
                         [job_logs EXCEPT ![Cur(w)] = after.logs], "source")
    /\ UNCHANGED <<wsrc, wdata, wexc>>

(* format_results: the metrics of the SearchResults object                 *)
SearchResultsMetrics(data, max_results) ==
    [status |-> "success", unique_companies |-> Len(data),
     returned_companies |-> Len(data), target_count |-> max_results]

(* a source call returns its list; enhanced_vendor_search returns either   *)
(* a SearchResults object (wrapped) or, on its failure paths, a plain [].  *)
(* The list                                                                *)
(* is merged into combined_data on arrival; the code merges the lists in   *)
(* the same order after the last source has returned (app.py:815-859).     *)
SourceReturn(w) ==
    /\ wpc[w] = "source"
    /\ \E data \in SourceLists, wrapped \in BOOLEAN :
          /\ wrapped => wsrc[w] = 1
          /\ (wsrc[w] = 1 /\ ~wrapped) => data = <<>>
          /\ MayHappen(IF wrapped THEN Max(1, Len(data)) ELSE Len(data))
          /\ wdata' = [wdata EXCEPT
                ![w].combined = CombineData(<<@, data>>),
                ![w].enhanced_metrics =
                    IF wrapped
                    THEN <<SearchResultsMetrics(data, wjob[w].max_results)>>
                    ELSE @]
    /\ wsrc' = [wsrc EXCEPT ![w] = IF @ < NumSources THEN @ + 1 ELSE @]
    /\ WorkerLocal(w, IF wsrc[w] < NumSources THEN "source" ELSE "enhanced_metrics")
    /\ UNCHANGED <<job_queue, dns_cache, dns_cache_expiry, valVars, combineVars, otherVars, wjob, wexc, taken>>

(* if hasattr(enhanced_data, 'results') ...:                               *)
(*     app.job_results[job_id]['metrics'].update(metrics)                  *)
EnhancedMetrics(w) ==
    /\ wpc[w] = "enhanced_metrics"
    /\ LET rec == job_results[Cur(w)]
           m0 == IF HasKey(rec, "metrics") THEN rec.metrics ELSE <<>>
       IN WorkerWrite(w,
             IF wdata[w].enhanced_metrics # <<>>
             THEN SetRec(w, [metrics |-> DictUpdate(m0, wdata[w].enhanced_metrics[1])])
             ELSE job_results,
             job_logs, "begin_combine")
    /\ UNCHANGED <<wsrc, wdata, wexc, nevents>>

(* progress = 80; log "Combining results ..."                              *)
BeginCombine(w) ==
    /\ wpc[w] = "begin_combine"
    /\ WorkerWrite(w, SetRec(w, [progress |-> [step |-> 80,
                                              message |-> "Combining results"]]),
                   AddLog(w, <<LogEntry("info", "Combining results")>>), "format")
    /\ UNCHANGED <<wsrc, wdata, wexc, nevents>>

(* app.py:861-937: validate each URL (structure, then DNS with the shared  *)
(* cache), cut to max_results                                              *)
FormatStage(w) ==
    /\ wpc[w] = "format"
    /\ LET combined == wdata[w].combined
           lookups == HostsOf(combined) \ DOMAIN dns_cache
       IN \E answers \in [lookups -> BOOLEAN] :
             LET dns == answers @@ dns_cache
                 formatted == Truncate(FormatResults(combined, wjob[w].vendor_name, dns),
                                       wjob[w].max_results)
             IN /\ dns_cache' = dns
                /\ dns_cache_expiry' = [h \in lookups |-> clock + DNS_CACHE_TTL]
                                           @@ dns_cache_expiry
                /\ wdata' = [wdata EXCEPT ![w].formatted = formatted]
                /\ WorkerLocal(w, IF Len(formatted) < wjob[w].max_results
                                  THEN "suggest" ELSE "complete")
    /\ UNCHANGED <<job_queue, wjob, wsrc, wexc, nevents, taken, valVars, combineVars, otherVars>>

(* additional_results = generate_additional_suggestions(...);              *)
(* formatted_results.extend(additional_results); log "Generated ..."       *)
Suggest(w) ==
    /\ wpc[w] = "suggest"
    /\ \E answer \in SuggestionAnswers :
          /\ MayHappen(Len(answer))
          /\ LET formatted == wdata[w].formatted
                 additional == AdditionalResults(wjob[w].vendor_name,
                                {Lower(formatted[k].customer_name) : k \in 1..Len(formatted)},
                                wjob[w].max_results - Len(formatted), answer, <<>>)
             IN wdata' = [wdata EXCEPT ![w].formatted = MarkScraped(formatted) \o additional]
    /\ WorkerWrite(w, job_results,
                   AddLog(w, <<LogEntry("info", "Generated additional potential customers")>>),
                   "complete")
    /\ UNCHANGED <<wsrc, wexc>>

(* app.job_results[job_id].update({'status': 'completed', 'results': ...});*)
(* log "Search complete!"                                                  *)
Complete(w) ==
    /\ wpc[w] = "complete"
    /\ WorkerWrite(w, SetRec(w, [status |-> "completed",
                                 results |-> wdata[w].formatted,
                                 end_time |-> clock,
                                 duration |-> clock - job_results[Cur(w)].start_time]),
                   AddLog(w, <<LogEntry("success", "Search complete")>>), "task_done")
    /\ UNCHANGED <<wsrc, wdata, wexc, nevents>>

(* the handler goes back to the top of the loop without task_done()        *)
Fail_NoTaskDone(w) ==
    /\ wpc[w] = "fail"
    /\ WorkerWrite(w, SetRec(w, [status |-> "failed",
                                 error |-> wexc[w],
                                 end_time |-> clock,
                                 duration |-> clock - job_results[Cur(w)].start_time]),
                   AddLog(w, <<LogEntry("error", "Error")>>), "get")
    /\ UNCHANGED <<wsrc, wdata, wexc, nevents>>

(* the handler stores a fresh record instead of updating the job's record *)
Fail_Replaces(w) ==
    /\ wpc[w] = "fail"
    /\ WorkerWrite(w, [job_results EXCEPT ![Cur(w)] =
                          [status |-> "failed", error |-> wexc[w]]],
                   AddLog(w, <<LogEntry("error", "Error")>>), "task_done")
    /\ UNCHANGED <<wsrc, wdata, wexc, nevents>>

(* except Exception as e:                                                  *)
(*     app.job_results[job_id].update({'status': 'failed', 'error': ...}); *)
(*     log "Error: ..."                                                    *)
Fail(w) ==
    /\ wpc[w] = "fail"
    /\ WorkerWrite(w, SetRec(w, [status |-> "failed",
                                 error |-> wexc[w],
                                 end_time |-> clock,
                                 duration |-> clock - job_results[Cur(w)].start_time]),
                   AddLog(w, <<LogEntry("error", "Error")>>), "task_done")
    /\ UNCHANGED <<wsrc, wdata, wexc, nevents>>

(* the loop is left after a job whose processing raised                    *)
TaskDone_Exits(w) ==
    /\ wpc[w] = "task_done"
    /\ unfinished' = unfinished - 1
    /\ wpc' = [wpc EXCEPT ![w] = IF wexc[w] # "" THEN "exited" ELSE "get"]
    /\ wjob' = [wjob EXCEPT ![w] = NoEntry]
    /\ wsrc' = [wsrc EXCEPT ![w] = 0]
    /\ wdata' = [wdata EXCEPT ![w] = NoData]
    /\ wexc' = [wexc EXCEPT ![w] = ""]
    /\ UNCHANGED <<clock, job_results, job_logs, job_queue, dns_cache, dns_cache_expiry, valVars, combineVars, otherVars, reqVars,
                   nevents, lag, pollVars, window, taken>>

(* app.job_queue.task_done(), then back to the top of the loop             *)
TaskDone(w) ==
    /\ wpc[w] = "task_done"
    /\ unfinished' = unfinished - 1
    /\ wpc' = [wpc EXCEPT ![w] = "get"]
    /\ wjob' = [wjob EXCEPT ![w] = NoEntry]
    /\ wsrc' = [wsrc EXCEPT ![w] = 0]
    /\ wdata' = [wdata EXCEPT ![w] = NoData]
    /\ wexc' = [wexc EXCEPT ![w] = ""]
    /\ UNCHANGED <<clock, job_results, job_logs, job_queue, dns_cache, dns_cache_expiry, valVars, combineVars, otherVars, reqVars,
                   nevents, lag, pollVars, window, taken>>

(***************************************************************************)
(* job_status (GET /job_status/<job_id>).  The handler copies the record   *)
(* (a shallow dict.copy), reads the log list afterwards, and jsonify       *)
(* walks the response last: the nested metrics dict is the job's own       *)
(* dict and is read then.                                                  *)
(***************************************************************************)
(* the ids a client may ask about                                          *)
QueryIds == JobIds \cup {<<v>> : v \in Vendors}

(* parts = job_id.split('_'); if len(parts) < 2: return 400                *)
PollInvalid ==
    /\ ppc = "idle"
    /\ MayHappen(1)
    /\ \E id \in QueryIds :
          /\ ~(Len(id) >= 2)
          /\ pjob' = id
    /\ presp' = [status |-> "error", error |-> "Invalid job ID format"]
    /\ ppc' = "invalid"
    /\ UNCHANGED <<clock, job_results, job_logs, job_queue, unfinished, dns_cache, dns_cache_expiry, valVars, combineVars, otherVars,
                   reqVars, workerVars, pattached, window, taken>>

(* a lookup that stores a fresh record under the id it misses              *)
PollNotFound_Creates ==
    /\ ppc = "idle"
    /\ MayHappen(1)
    /\ \E id \in QueryIds :
          /\ Len(id) >= 2
          /\ id \notin DOMAIN job_results
          /\ pjob' = id
          /\ job_results' = (id :> NewJobRecord(id[1], DefaultMaxResults, clock))
                                @@ job_results
    /\ presp' = [status |-> "error", error |-> "Job not found"]
    /\ ppc' = "notfound"
    /\ UNCHANGED <<clock, job_logs, job_queue, unfinished, dns_cache, dns_cache_expiry, valVars, combineVars, otherVars,
                   reqVars, workerVars, pattached, window, taken>>

(* if job_id not in app.job_results: return 404                            *)
PollNotFound ==
    /\ ppc = "idle"
    /\ MayHappen(1)
    /\ \E id \in QueryIds :
          /\ Len(id) >= 2
          /\ id \notin DOMAIN job_results
          /\ pjob' = id
    /\ presp' = [status |-> "error", error |-> "Job not found"]
    /\ ppc' = "notfound"
    /\ UNCHANGED <<clock, job_results, job_logs, job_queue, unfinished, dns_cache, dns_cache_expiry, valVars, combineVars, otherVars,
                   reqVars, workerVars, pattached, window, taken>>

(* response_data = app.job_results[job_id].copy()                          *)
PollCopy ==
    /\ ppc = "idle"
    /\ MayHappen(1)
    /\ \E id \in QueryIds :
          /\ Len(id) >= 2
          /\ id \in DOMAIN job_results
          /\ pjob' = id
          /\ presp' = job_results[id]
          /\ window' = {Response(job_results, job_logs, id)}
    /\ ppc' = "logs"
    /\ pattached' = TRUE
    /\ UNCHANGED <<clock, job_results, job_logs, job_queue, unfinished, dns_cache, dns_cache_expiry, valVars, combineVars, otherVars,
                   reqVars, workerVars, taken>>

(* if job_id in app.job_logs:                                              *)
(*     response_data['logs'] = app.job_logs[job_id][-50:]                  *)
PollLogs ==
    /\ ppc = "logs"
    /\ presp' = IF pjob \in DOMAIN job_logs
                THEN DictUpdate(presp, [logs |-> LastN(job_logs[pjob], LogWindow)])
                ELSE presp
    /\ ppc' = "serialize"
    /\ UNCHANGED <<clock, job_results, job_logs, job_queue, unfinished, dns_cache, dns_cache_expiry, valVars, combineVars, otherVars,
                   reqVars, workerVars, nevents, pjob, pattached, window, taken>>

(* What jsonify(response_data) writes out when it runs now: the nested     *)
(* metrics dict is read at this point.                                     *)
Serialized ==
    IF pattached /\ HasKey(presp, "metrics")
    THEN DictUpdate(presp, [metrics |-> job_results[pjob].metrics])
    ELSE presp

(* return jsonify(response_data), status; the request thread is done       *)
PollReturn ==
    /\ ppc \in {"serialize", "notfound", "invalid"}
    /\ ppc' = "idle"
    /\ pjob' = MakeJobId("", 0)
    /\ presp' = NoResponse
    /\ pattached' = FALSE
    /\ window' = {}
    /\ UNCHANGED <<clock, job_results, job_logs, job_queue, unfinished, dns_cache, dns_cache_expiry, valVars, combineVars, otherVars,
                   reqVars, workerVars, nevents, taken>>

WorkerStep(w) ==
    \/ Dequeue(w)
    \/ Start(w)
    \/ BeginVendor(w)
    \/ VendorSiteCallback(w)
    \/ VendorSiteReturn(w)
    \/ SourceRaise(w)
    \/ BeginSearches(w)
    \/ EnhancedCallback(w)
    \/ SectionCallback(w)
    \/ SourceReturn(w)
    \/ EnhancedMetrics(w)
    \/ BeginCombine(w)
    \/ FormatStage(w)
    \/ Suggest(w)
    \/ Complete(w)
    \/ Fail(w)
    \/ TaskDone(w)

Next ==
    \/ Tick
    \/ \E r \in Reqs : AnalyzeReject(r)
    \/ \E r \in Reqs : AnalyzeCreate(r)
    \/ \E r \in Reqs : AnalyzeInitLogs(r)
    \/ \E r \in Reqs : AnalyzePut(r)
    \/ \E r \in Reqs : AnalyzeLog(r)
    \/ \E w \in Workers : WorkerStep(w)
    \/ PollInvalid
    \/ PollNotFound
    \/ PollCopy
    \/ PollLogs
    \/ PollReturn

Spec == Init /\ [][Next]_vars

(* Every thread that can run is scheduled again, and every external call   *)
(* returns or raises: the worker thread, a request thread inside analyze   *)
(* and the request thread inside job_status keep taking their steps.       *)
FairSpec ==
    /\ Spec
    /\ \A w \in Workers : WF_vars(WorkerStep(w))
    /\ \A r \in Reqs : WF_vars(AnalyzeInitLogs(r) \/ AnalyzePut(r) \/ AnalyzeLog(r))
    /\ WF_vars(PollLogs \/ PollReturn)

TypeOK ==
    /\ clock \in 0..MaxEvents
    /\ nevents \in 0..MaxEvents
    /\ lag \in 0..MaxLag
    /\ DOMAIN job_results \subseteq JobIds
    /\ DOMAIN job_logs \subseteq DOMAIN job_results
    /\ unfinished \in 0..(MaxEvents + 1)

(***************************************************************************)
(* src/src/utils/url_validator.py: validate_url with its tiers and the     *)
(* module-level DNS and HTTP caches.  Threads calling validate_url         *)
(* interleave between the statements that read or write a cache dict; the  *)
(* lookup (socket.getaddrinfo) and the probe (requests.head) are calls to  *)
(* the environment and return or raise one of the outcomes below.          *)
(***************************************************************************)
Urls == {"", "example.com", "www.globex.com/about"}

CallArgs == [url : Urls, validate_dns : BOOLEAN, validate_http : BOOLEAN,
             clean_only : BOOLEAN]

(* socket.getaddrinfo returns, raises socket.gaierror, or raises another   *)
(* exception                                                               *)
DnsOutcomes == {"resolved", "gaierror", "Exception"}

(* requests.head returns a response of status 2xx/3xx or of another        *)
(* status, or raises; the handlers of ConnectionError, TooManyRedirects    *)
(* and RequestException are the handler of Timeout with another reason     *)
(* text, so Timeout stands for the four                                    *)
HttpOutcomes == {"valid_status", "invalid_status", "Timeout", "Exception"}

HttpReason(outcome) ==
    CASE outcome = "valid_status" -> None
      [] outcome = "invalid_status" -> "HTTP status code"
      [] outcome = "ConnectionError" -> "Connection error"
      [] outcome = "Timeout" -> "Request timed out"
      [] outcome = "TooManyRedirects" -> "Too many redirects"
      [] outcome = "RequestException" -> "Request error"
      [] OTHER -> "Unexpected error"

(* URLValidationResult(url, is_valid, structure_valid, cleaned_url, reason) *)
URLValidationResult(is_valid, structure_valid, cleaned_url, reason) ==
    [is_valid |-> is_valid, structure_valid |-> structure_valid,
     dns_valid |-> FALSE, http_valid |-> FALSE,
     cleaned_url |-> cleaned_url, reason |-> reason]

(* the check of _validate_url_structure that rejects the URL               *)
StructureReason(url) ==
    IF url = "example.com" THEN "URL contains invalid pattern"
    ELSE "URL too short or missing domain extension"

validate_url_structure(url) ==
    IF StructureValid(url)
    THEN URLValidationResult(FALSE, TRUE, CleanedUrl(url), "Valid structure")
    ELSE URLValidationResult(FALSE, FALSE, None, StructureReason(url))

(* url = f"https://{domain}", the key of the HTTP cache                    *)
HttpUrl(domain) == <<"https://", domain>>

(* del d[k]                                                                *)
Remove(d, k) == [x \in DOMAIN d \ {k} |-> d[x]]

(* is_valid from all three tiers, requested or not                         *)
Finalize_AllTiers(args, result) ==
    [result EXCEPT !.is_valid = result.structure_valid /\ result.dns_valid
                                    /\ result.http_valid]

(* result.is_valid = result.structure_valid; and dns_valid / http_valid    *)
(* for the tiers that were requested                                       *)
Finalize(args, result) ==
    LET v0 == result.structure_valid
        v1 == IF args.validate_dns THEN v0 /\ result.dns_valid ELSE v0
        v2 == IF args.validate_http THEN v1 /\ result.http_valid ELSE v1
    IN [result EXCEPT !.is_valid = v2]

(* validate_url without its return after a failed DNS tier                 *)
AfterDnsPc_Continues(args, result) ==
    IF args.validate_http THEN "http_check" ELSE "returned"

(* where validate_url goes on after its DNS tier, and with which result    *)
AfterDnsPc(args, result) ==
    IF ~result.dns_valid THEN "returned"
    ELSE IF args.validate_http THEN "http_check" ELSE "returned"

AfterDnsResult(args, result) ==
    IF ~result.dns_valid \/ args.validate_http THEN result
    ELSE Finalize(args, result)

mainVars == <<job_results, job_logs, job_queue, unfinished, reqVars, workerVars,
              pollVars, nevents, window, taken>>

(* thread t moves on inside its call                                       *)
VStep(t, pc, result, done) ==
    /\ vpc' = [vpc EXCEPT ![t] = pc]
    /\ vres' = [vres EXCEPT ![t] = result]
    /\ vdone' = [vdone EXCEPT ![t] = done]
    /\ UNCHANGED <<clock, vargs, vprev, ncalls, mainVars, combineVars, otherVars>>

(* an uncaught KeyError leaves validate_url                                *)
VRaise(t) == VStep(t, "raised", NoResult, vdone[t])

dnsVars == <<dns_cache, dns_cache_expiry>>
httpVars == <<http_cache, http_cache_expiry>>

(* the lookups and probes that lie less than a TTL before the instant now  *)
Recent(times, now, ttl) ==
    [k \in {x \in DOMAIN times : now < times[x] + ttl} |-> times[k]]

(* datetime.now() moves on by half a TTL                                   *)
Elapse ==
    /\ clock < MaxElapse * (DNS_CACHE_TTL \div 2)
    /\ clock' = clock + DNS_CACHE_TTL \div 2
    /\ looked' = [dns |-> Recent(looked.dns, clock', DNS_CACHE_TTL),
                  http |-> Recent(looked.http, clock', HTTP_CACHE_TTL)]
    /\ UNCHANGED <<dnsVars, httpVars, vpc, vargs, vres, vdone, vprev, ncalls, mainVars,
                   combineVars, otherVars>>

Running(t) == vpc[t] \notin {"idle", "returned", "raised"}

(* validate_url(url, validate_dns, validate_http, clean_only) up to its    *)
(* first use of a cache; caller 1 makes the calls that run alone, caller 2 *)
(* the calls that start while another call is running                      *)
VCall(t) ==
    /\ ~Running(t)
    /\ t # 1 => Running(1)
    /\ ncalls < MaxCalls
    /\ ncalls' = ncalls + 1
    /\ \E args \in CallArgs :
          LET result == validate_url_structure(args.url)
          IN /\ vargs' = [vargs EXCEPT ![t] = args]
             /\ IF args.url = ""
                THEN /\ vres' = [vres EXCEPT ![t] =
                                    URLValidationResult(FALSE, FALSE, None, "Empty URL")]
                     /\ vpc' = [vpc EXCEPT ![t] = "returned"]
                ELSE IF args.clean_only
                THEN /\ vres' = [vres EXCEPT ![t] = [result EXCEPT !.is_valid = TRUE]]
                     /\ vpc' = [vpc EXCEPT ![t] = "returned"]
                ELSE IF ~result.structure_valid
                THEN /\ vres' = [vres EXCEPT ![t] = result]
                     /\ vpc' = [vpc EXCEPT ![t] = "returned"]
                ELSE IF args.validate_dns
                THEN /\ vres' = [vres EXCEPT ![t] = result]
                     /\ vpc' = [vpc EXCEPT ![t] = "dns_check"]
                ELSE IF args.validate_http
                THEN /\ vres' = [vres EXCEPT ![t] = result]
                     /\ vpc' = [vpc EXCEPT ![t] = "http_check"]
                ELSE /\ vres' = [vres EXCEPT ![t] = Finalize(args, result)]
                     /\ vpc' = [vpc EXCEPT ![t] = "returned"]
    /\ vprev' = [vprev EXCEPT ![t] =
                    IF vpc[t] = "returned" /\ vargs'[t] = vargs[t]
                    THEN [args |-> vargs[t], res |-> vres[t]]
                    ELSE NoCall]
    /\ vdone' = [vdone EXCEPT ![t] = NotDone]
    /\ UNCHANGED <<clock, dnsVars, httpVars, looked, mainVars, combineVars, otherVars>>

(* _validate_url_dns: if domain in _dns_cache:                             *)
DnsCheck(t) ==
    /\ vpc[t] = "dns_check"
    /\ VStep(t, IF vres[t].cleaned_url \in DOMAIN dns_cache
                THEN "dns_expiry" ELSE "dns_lookup", vres[t], vdone[t])
    /\ UNCHANGED <<dnsVars, httpVars, looked>>

(* if _dns_cache_expiry[domain] > datetime.now():                          *)
DnsExpiry(t) ==
    /\ vpc[t] = "dns_expiry"
    /\ LET domain == vres[t].cleaned_url
       IN IF domain \notin DOMAIN dns_cache_expiry
          THEN VRaise(t)
          ELSE VStep(t, IF dns_cache_expiry[domain] > clock
                        THEN "dns_hit" ELSE "dns_del", vres[t], vdone[t])
    /\ UNCHANGED <<dnsVars, httpVars, looked>>

(* result.dns_valid = _dns_cache[domain]; the reason is replaced when the  *)
(* cached outcome is False; return result                                  *)
DnsHit(t) ==
    /\ vpc[t] = "dns_hit"
    /\ LET domain == vres[t].cleaned_url
       IN IF domain \notin DOMAIN dns_cache
          THEN VRaise(t)
          ELSE LET result ==
                     [vres[t] EXCEPT
                        !.dns_valid = dns_cache[domain],
                        !.reason = IF dns_cache[domain] THEN @
                                   ELSE "Domain does not resolve (cached result)"]
               IN VStep(t, AfterDnsPc(vargs[t], result),
                        AfterDnsResult(vargs[t], result),
                        [vdone[t] EXCEPT !.dns_cached = TRUE])
    /\ UNCHANGED <<dnsVars, httpVars, looked>>

(* del _dns_cache[domain]                                                  *)
DnsDel(t) ==
    /\ vpc[t] = "dns_del"
    /\ LET domain == vres[t].cleaned_url
       IN IF domain \notin DOMAIN dns_cache
          THEN VRaise(t) /\ UNCHANGED dns_cache
          ELSE /\ dns_cache' = Remove(dns_cache, domain)
               /\ VStep(t, "dns_del_expiry", vres[t], vdone[t])
    /\ UNCHANGED <<dns_cache_expiry, httpVars, looked>>

(* del _dns_cache_expiry[domain]                                           *)
DnsDelExpiry(t) ==
    /\ vpc[t] = "dns_del_expiry"
    /\ LET domain == vres[t].cleaned_url
       IN IF domain \notin DOMAIN dns_cache_expiry
          THEN VRaise(t) /\ UNCHANGED dns_cache_expiry
          ELSE /\ dns_cache_expiry' = Remove(dns_cache_expiry, domain)
               /\ VStep(t, "dns_lookup", vres[t], vdone[t])
    /\ UNCHANGED <<dns_cache, httpVars, looked>>

(* socket.getaddrinfo(domain, None), then _dns_cache[domain] = True or,    *)
(* in except socket.gaierror, False; except Exception stores nothing and   *)
(* returns the result with dns_valid = False                               *)
DnsLookup(t) ==
    /\ vpc[t] = "dns_lookup"
    /\ LET domain == vres[t].cleaned_url
           done == [vdone[t] EXCEPT !.dns_lookup = TRUE]
       IN /\ looked' = [looked EXCEPT !.dns = (domain :> clock) @@ @]
          /\ \E outcome \in DnsOutcomes :
                IF outcome = "Exception"
                THEN /\ VStep(t, "returned",
                              [vres[t] EXCEPT !.dns_valid = FALSE, !.reason = "DNS error"],
                              done)
                     /\ UNCHANGED dns_cache
                ELSE /\ dns_cache' = (domain :> (outcome = "resolved")) @@ dns_cache
                     /\ VStep(t, "dns_store_expiry", vres[t],
                              [done EXCEPT !.outcome = (outcome = "resolved")])
    /\ UNCHANGED <<dns_cache_expiry, httpVars>>

(* _dns_cache_expiry[domain] = datetime.now() + timedelta(DNS_CACHE_TTL);  *)
(* result.dns_valid = True, or False with its reason; return result        *)
DnsStoreExpiry(t) ==
    /\ vpc[t] = "dns_store_expiry"
    /\ LET domain == vres[t].cleaned_url
           result == [vres[t] EXCEPT
                        !.dns_valid = vdone[t].outcome,
                        !.reason = IF vdone[t].outcome THEN @
                                   ELSE "Domain does not resolve"]
       IN /\ dns_cache_expiry' = (domain :> clock + DNS_CACHE_TTL) @@ dns_cache_expiry
          /\ VStep(t, AfterDnsPc(vargs[t], result), AfterDnsResult(vargs[t], result),
                   [vdone[t] EXCEPT !.outcome = FALSE])
    /\ UNCHANGED <<dns_cache, httpVars, looked>>

(* _validate_url_http: if url in _http_cache:                              *)
HttpCheck(t) ==
    /\ vpc[t] = "http_check"
    /\ VStep(t, IF HttpUrl(vres[t].cleaned_url) \in DOMAIN http_cache
                THEN "http_expiry" ELSE "http_probe", vres[t], vdone[t])
    /\ UNCHANGED <<dnsVars, httpVars, looked>>

(* if _http_cache_expiry[url] > datetime.now():                            *)
HttpExpiry(t) ==
    /\ vpc[t] = "http_expiry"
    /\ LET url == HttpUrl(vres[t].cleaned_url)
       IN IF url \notin DOMAIN http_cache_expiry
          THEN VRaise(t)
          ELSE VStep(t, IF http_cache_expiry[url] > clock
                        THEN "http_hit" ELSE "http_del", vres[t], vdone[t])
    /\ UNCHANGED <<dnsVars, httpVars, looked>>

(* result.http_valid = _http_cache[url]; the reason is replaced when the   *)
(* cached outcome is False; return result, and validate_url sets is_valid  *)
HttpHit(t) ==
    /\ vpc[t] = "http_hit"
    /\ LET url == HttpUrl(vres[t].cleaned_url)
       IN IF url \notin DOMAIN http_cache
          THEN VRaise(t)
          ELSE LET result ==
                     [vres[t] EXCEPT
                        !.http_valid = http_cache[url],
                        !.reason = IF http_cache[url] THEN @
                                   ELSE "HTTP validation failed (cached result)"]
               IN VStep(t, "returned", Finalize(vargs[t], result),
                        [vdone[t] EXCEPT !.http_cached = TRUE])
    /\ UNCHANGED <<dnsVars, httpVars, looked>>

(* del _http_cache[url]                                                    *)
HttpDel(t) ==
    /\ vpc[t] = "http_del"
    /\ LET url == HttpUrl(vres[t].cleaned_url)
       IN IF url \notin DOMAIN http_cache
          THEN VRaise(t) /\ UNCHANGED http_cache
          ELSE /\ http_cache' = Remove(http_cache, url)
               /\ VStep(t, "http_del_expiry", vres[t], vdone[t])
    /\ UNCHANGED <<dnsVars, http_cache_expiry, looked>>

(* del _http_cache_expiry[url]                                             *)
HttpDelExpiry(t) ==
    /\ vpc[t] = "http_del_expiry"
    /\ LET url == HttpUrl(vres[t].cleaned_url)
       IN IF url \notin DOMAIN http_cache_expiry
          THEN VRaise(t) /\ UNCHANGED http_cache_expiry
          ELSE /\ http_cache_expiry' = Remove(http_cache_expiry, url)
               /\ VStep(t, "http_probe", vres[t], vdone[t])
    /\ UNCHANGED <<dnsVars, http_cache, looked>>

(* requests.head(url, ...), then _http_cache[url] = is_valid or, in the    *)
(* handlers of the requests exceptions, False; except Exception stores     *)
(* nothing and returns the result with http_valid = False                  *)
HttpProbe(t) ==
    /\ vpc[t] = "http_probe"
    /\ LET url == HttpUrl(vres[t].cleaned_url)
           done == [vdone[t] EXCEPT !.http_probe = TRUE]
       IN /\ looked' = [looked EXCEPT !.http = (url :> clock) @@ @]
          /\ \E outcome \in HttpOutcomes :
                IF outcome = "Exception"
                THEN /\ VStep(t, "returned",
                              Finalize(vargs[t],
                                       [vres[t] EXCEPT !.http_valid = FALSE,
                                                       !.reason = HttpReason(outcome)]),
                              done)
                     /\ UNCHANGED http_cache
                ELSE /\ http_cache' = (url :> (outcome = "valid_status")) @@ http_cache
                     /\ VStep(t, "http_store_expiry",
                              [vres[t] EXCEPT !.reason = IF outcome = "valid_status" THEN @
                                                         ELSE HttpReason(outcome)],
                              [done EXCEPT !.outcome = (outcome = "valid_status")])
    /\ UNCHANGED <<dnsVars, http_cache_expiry>>

(* _http_cache_expiry[url] = datetime.now() + timedelta(HTTP_CACHE_TTL);   *)
(* result.http_valid = is_valid or False; return result, and validate_url  *)
(* sets is_valid                                                           *)
HttpStoreExpiry(t) ==
    /\ vpc[t] = "http_store_expiry"
    /\ LET url == HttpUrl(vres[t].cleaned_url)
           result == [vres[t] EXCEPT !.http_valid = vdone[t].outcome]
       IN /\ http_cache_expiry' = (url :> clock + HTTP_CACHE_TTL) @@ http_cache_expiry
          /\ VStep(t, "returned", Finalize(vargs[t], result),
                   [vdone[t] EXCEPT !.outcome = FALSE])
    /\ UNCHANGED <<dnsVars, http_cache, looked>>

ValidateStep(t) ==
    \/ VCall(t)
    \/ DnsCheck(t)
    \/ DnsExpiry(t)
    \/ DnsHit(t)
    \/ DnsDel(t)
    \/ DnsDelExpiry(t)
    \/ DnsLookup(t)
    \/ DnsStoreExpiry(t)
    \/ HttpCheck(t)
    \/ HttpExpiry(t)
    \/ HttpHit(t)
    \/ HttpDel(t)
    \/ HttpDelExpiry(t)
    \/ HttpProbe(t)
    \/ HttpStoreExpiry(t)

ValidatorNext ==
    \/ Elapse
    \/ \E t \in Callers : ValidateStep(t)

ValidatorSpec == Init /\ [][ValidatorNext]_vars

ValidatorTypeOK ==
    /\ ncalls \in 0..MaxCalls
    /\ DOMAIN dns_cache \subseteq Hosts
    /\ \A t \in Callers : vargs[t] \in CallArgs \cup {NoArgs}

(***************************************************************************)
(* The combining of app.py:815-859 (the same code is worker.py:374-418)    *)
(* on its own: the lists of the vendor site and of the seven sources are   *)
(* drawn, then combined.                                                   *)
(***************************************************************************)
NumLists == 1 + NumSources

(* a record that carries a confidence, as enhanced search attaches it      *)
CandConfident == [name |-> "globex", url |-> "globex.com", confidence |-> 90]

(* the records a source may return; their names differ in case and in      *)
(* surrounding whitespace                                                  *)
SourceRecords ==
    Candidates \cup {[name |-> " Globex", url |-> "globex.com"], CandConfident}

(* who returned which record, in the order of the lists                    *)
Emissions == UNION {[1..n -> (1..NumLists) \X SourceRecords] : n \in 0..MaxItems}

ListOf(em, i) ==
    LET From(e) == e[1] = i
        mine == SelectSeq(em, From)
    IN [k \in 1..Len(mine) |-> mine[k][2]]

SourceData == {[i \in 1..NumLists |-> ListOf(em, i)] : em \in Emissions}

CombineInit ==
    /\ ProgramInit
    /\ source_data \in SourceData
    /\ combined_data = <<>>
    /\ combine_done = FALSE
    /\ ResultsIdle
    /\ OthersIdle

(* the first list is copied as it is, the others are appended item by item *)
(* unless the lower-cased name is known                                    *)
Combine ==
    /\ ~combine_done
    /\ combined_data' = CombineData(source_data)
    /\ combine_done' = TRUE
    /\ UNCHANGED <<clock, dns_cache, dns_cache_expiry, valVars, mainVars, source_data,
                   form_max_results, formatted_results, results_pc, otherVars>>

CombineNext == Combine

CombineSpec == CombineInit /\ [][CombineNext]_vars

(***************************************************************************)
(* From the combined list to the stored results (app.py:861-960), on its   *)
(* own: the combined list and the submitted max_results are drawn, the     *)
(* resolver and the suggestion service answer as they like.                *)
(***************************************************************************)
(* the max_results fields submitted: below the range, inside it, above it, *)
(* not an integer                                                          *)
SubmittedMaxResults == {[isInt |-> TRUE, val |-> 0], [isInt |-> TRUE, val |-> 2],
                        [isInt |-> TRUE, val |-> 101], [isInt |-> FALSE, val |-> 0]}

(* the lists the combining can produce                                     *)
CombinedLists == {CombineData(lists) : lists \in SourceData}

(* what the suggestion service may answer here: up to two suggestions      *)
SuggestionLists ==
    SuggestionAnswers \cup {<<[name |-> "Initech", domain |-> "initech.com"],
                              [name |-> "globex", domain |-> "globex.com"]>>}

resultsRest == <<clock, valVars, mainVars, source_data, combined_data, combine_done,
                 form_max_results, otherVars>>

(* app.py:861-937: the formatting loop, then the cut to max_results        *)
FormatAndLimit ==
    /\ results_pc = "format"
    /\ LET max_results == ParseMaxResults(form_max_results)
           lookups == HostsOf(combined_data) \ DOMAIN dns_cache
       IN \E answers \in [lookups -> BOOLEAN] :
             LET dns == answers @@ dns_cache
                 formatted == Truncate(FormatResults(combined_data, ResultsVendor, dns),
                                       max_results)
             IN /\ dns_cache' = dns
                /\ dns_cache_expiry' = [h \in lookups |-> clock + DNS_CACHE_TTL]
                                           @@ dns_cache_expiry
                /\ formatted_results' = formatted
                /\ results_pc' = IF Len(formatted) < max_results
                                 THEN "suggest" ELSE "complete"
    /\ UNCHANGED resultsRest

(* app.py:939-960: generate_additional_suggestions(vendor_name,            *)
(* formatted_results, max_results - len(formatted_results)), then extend   *)
AddSuggestions ==
    /\ results_pc = "suggest"
    /\ \E answer \in SuggestionLists :
          LET max_results == ParseMaxResults(form_max_results)
              additional == AdditionalResults(ResultsVendor,
                     {Lower(formatted_results[k].customer_name) :
                          k \in 1..Len(formatted_results)},
                     max_results - Len(formatted_results), answer, <<>>)
          IN formatted_results' = MarkScraped(formatted_results) \o additional
    /\ results_pc' = "complete"
    /\ UNCHANGED <<dns_cache, dns_cache_expiry, resultsRest>>

(* app.py:966-975: the results are stored and the job is completed         *)
StoreResults ==
    /\ results_pc = "complete"
    /\ results_pc' = "stored"
    /\ UNCHANGED <<dns_cache, dns_cache_expiry, formatted_results, resultsRest>>

ResultsInit ==
    /\ ProgramInit
    /\ OthersIdle
    /\ source_data = <<>>
    /\ combined_data \in CombinedLists
    /\ combine_done = TRUE
    /\ form_max_results \in SubmittedMaxResults
    /\ formatted_results = <<>>
    /\ results_pc = "format"

ResultsNext ==
    \/ FormatAndLimit
    \/ AddSuggestions
    \/ StoreResults

ResultsSpec == ResultsInit /\ [][ResultsNext]_vars

(***************************************************************************)
(* analyze_with_grok (grok_analyzer.py:15-436) with parse_grok_response    *)
(* and process_data_without_grok, on its own: the data, max_results and    *)
(* whether an API key is set are drawn, the analysis service answers each  *)
(* request as it likes.                                                    *)
(***************************************************************************)
AnalyzedVendor == CHOOSE v \in Vendors : TRUE

(* a malformed record: its 'name' is None (the name reads as empty where   *)
(* only its truth is tested)                                               *)
CandNoneName == [name |-> "", url |-> "globex.com", name_is_none |-> TRUE]

NameIsNone(item) == Get(item, "name_is_none", FALSE)

(* the items of data: with and without URL, with a URL of invalid          *)
(* structure, without a name, with None for a name                         *)
DataItems ==
    SourceRecords \cup {[name |-> "Initech", url |-> "not a url"],
                        [name |-> "", url |-> "globex.com"],
                        CandNoneName}

DataLists == UNION {[1..n -> DataItems] : n \in 0..MaxItems}

(* the max_results the callers pass                                        *)
MaxResultsArgs == 1..MaxItems

(* the lines of a 200 response: a name, or a name and a URL                *)
AnswerLines == {[name |-> "Globex", url |-> ""], [name |-> "Acme", url |-> ""],
                [name |-> "Initech", url |-> "not a url"]}

ServiceAnswers == UNION {[1..n -> AnswerLines] : n \in 0..MaxItems}

(* the dict built for a result                                             *)
ResultRecord(vendor_name, name, url) ==
    [competitor |-> vendor_name, customer_name |-> name,
     customer_url |-> CleanedUrl(url),
     validation |-> [structure_valid |-> TRUE, dns_valid |-> FALSE,
                     http_valid |-> FALSE]]

(* unique_customers[name] = {...}: a known name keeps its place            *)
PutCustomer(acc, rec) ==
    IF \E k \in 1..Len(acc) : acc[k].customer_name = rec.customer_name
    THEN [k \in 1..Len(acc) |->
             IF acc[k].customer_name = rec.customer_name THEN rec ELSE acc[k]]
    ELSE Append(acc, rec)

(* the loop of process_data_without_grok that keeps every item but the     *)
(* vendor itself                                                           *)
RECURSIVE UniqueCustomers_KeepsVendor(_, _, _)
UniqueCustomers_KeepsVendor(data, vendor_name, acc) ==
    IF data = <<>> THEN acc
    ELSE LET item == Head(data)
             url == IF item.url # "" THEN item.url ELSE SynthesizedUrl(item.name)
         IN IF item.name = ""
            THEN UniqueCustomers_KeepsVendor(Tail(data), vendor_name, acc)
            ELSE IF url # "" /\ StructureValid(url)
            THEN UniqueCustomers_KeepsVendor(Tail(data), vendor_name,
                    PutCustomer(acc, ResultRecord(vendor_name, item.name, url)))
            ELSE UniqueCustomers_KeepsVendor(Tail(data), vendor_name, acc)

(* the loop of process_data_without_grok (grok_analyzer.py:598-631)        *)
RECURSIVE UniqueCustomers(_, _, _)
UniqueCustomers(data, vendor_name, acc) ==
    IF data = <<>> THEN acc
    ELSE LET item == Head(data)
             url == IF item.url # "" THEN item.url ELSE SynthesizedUrl(item.name)
         IN IF item.name = "" \/ Lower(item.name) = Lower(vendor_name)
            THEN UniqueCustomers(Tail(data), vendor_name, acc)
            ELSE IF url # "" /\ StructureValid(url)
            THEN UniqueCustomers(Tail(data), vendor_name,
                    PutCustomer(acc, ResultRecord(vendor_name, item.name, url)))
            ELSE UniqueCustomers(Tail(data), vendor_name, acc)

FallbackDefaultMaxResults == 20

(* results[:max_results] of the unique customers                           *)
process_data_without_grok(data, vendor_name, max_results) ==
    Truncate(UniqueCustomers(data, vendor_name, <<>>), max_results)

(* the line-by-line branch of parse_grok_response (grok_analyzer.py:       *)
(* 518-565), the format the prompt asks for                                *)
RECURSIVE parse_grok_response(_, _, _, _)
parse_grok_response(lines, vendor_name, max_results, results) ==
    IF lines = <<>> THEN results
    ELSE LET line == Head(lines)
             url == IF line.url # "" THEN line.url ELSE SynthesizedUrl(line.name)
             added == IF url # "" /\ StructureValid(url)
                      THEN Append(results, ResultRecord(vendor_name, line.name, url))
                      ELSE results
         IN IF Len(added) >= max_results THEN added
            ELSE parse_grok_response(Tail(lines), vendor_name, max_results, added)

(* the URL the first loop of analyze_with_grok validates for an item       *)
ItemUrl(item, vendor_name) ==
    IF item.url = "" /\ Strip(item.name) # ""
          /\ Lower(Strip(item.name)) # Lower(vendor_name)
    THEN SynthesizedUrl(Strip(item.name))
    ELSE item.url

(* partial_results (grok_analyzer.py:53-88)                                *)
RECURSIVE PartialResults(_, _, _)
PartialResults(data, vendor_name, partial) ==
    IF data = <<>> THEN partial
    ELSE LET item == Head(data)
             name == Strip(item.name)
             url == ItemUrl(item, vendor_name)
         IN IF /\ url # "" /\ StructureValid(url)
               /\ name # "" /\ Lower(name) # Lower(vendor_name)
               /\ ~\E k \in 1..Len(partial) :
                      Lower(partial[k].customer_name) = Lower(name)
            THEN PartialResults(Tail(data), vendor_name,
                                Append(partial, ResultRecord(vendor_name, name, url)))
            ELSE PartialResults(Tail(data), vendor_name, partial)

(* the hosts of simplified_data, which are DNS-validated before the call   *)
SimplifiedHosts(data, vendor_name) ==
    {CleanedUrl(ItemUrl(data[k], vendor_name)) : k \in {j \in 1..Len(data) :
        ItemUrl(data[j], vendor_name) # ""
            /\ StructureValid(ItemUrl(data[j], vendor_name))}}

max_retries == 3
initial_timeout == 40

(* current_timeout = initial_timeout * (retry + 1)                         *)
CurrentTimeout(retry) == initial_timeout * (retry + 1)

(* what a request to the service ends in: a response with status 200 or    *)
(* another status, requests.exceptions.Timeout, another                    *)
(* RequestException, or any other exception                                *)
AttemptOutcomes == {"200", "non200", "Timeout", "RequestException", "Exception"}

(* a request error is retried like a timeout                               *)
AfterAttempt_RetriesErrors(retry, outcome) ==
    IF outcome = "200" THEN "parse"
    ELSE IF outcome = "Exception" \/ retry = max_retries - 1 THEN "fallback"
    ELSE "attempt"

(* where the loop goes after an attempt (grok_analyzer.py:327-360, 431)    *)
AfterAttempt(retry, outcome) ==
    CASE outcome = "200" -> "parse"
      [] outcome \in {"non200", "Timeout"} ->
            IF retry = max_retries - 1 THEN "fallback" ELSE "attempt"
      [] outcome = "RequestException" -> "fallback"
      [] outcome = "Exception" -> "fallback"

(* the return statement reached after a failed attempt                     *)
FallbackPath(outcome) ==
    CASE outcome \in {"non200", "Timeout"} -> "exhausted"
      [] outcome = "RequestException" -> "request_error"
      [] outcome = "Exception" -> "exception"

(* a call progress_callback(progress, ...): progress is a stage name or a  *)
(* percentage                                                              *)
Stage(name) == [stage |-> name, percent |-> 0]
Percent(n) == [stage |-> "", percent |-> n]

(* the events of the preparation (grok_analyzer.py:30, 113, 128, 224, 292):*)
(* the periodic events need 10 items and the HTTP stage more than 5        *)
PrepareEvents(data, vendor_name) ==
    <<Stage("PREPARING")>>
    \o (IF SimplifiedHosts(data, vendor_name) # {}
        THEN <<Percent(30), Percent(30)>> ELSE <<>>)
    \o <<Percent(50), Stage("API_CALL")>>

(* the events of one pass of the retry loop (grok_analyzer.py:317, 331)    *)
AttemptEvents(retry, outcome) ==
    <<Percent(60 + retry * 10)>> \o (IF outcome = "200" THEN <<Percent(85)>> ELSE <<>>)

(* the fallback never reports COMPLETE                                     *)
FallbackEvents_NoComplete == <<Stage("FINALIZING")>>

(* the events of process_data_without_grok (grok_analyzer.py:589, 666)     *)
FallbackEvents == <<Stage("FINALIZING"), Stage("COMPLETE")>>

(* the events of the handler "except Exception" (grok_analyzer.py:434-436) *)
ExceptEvents == <<Stage("ERROR")>> \o FallbackEvents

(* "if progress_callback: progress_callback(...)"                          *)
Emit(events) == aevents' = IF acallback THEN aevents \o events ELSE aevents

(* item.get("name", "").strip() raises AttributeError on a name of None    *)
PreparationThrows(data) == \E k \in 1..Len(data) : NameIsNone(data[k])

analyzeRest == <<clock, dns_cache_expiry, valVars, combineVars, mainVars, blockVars,
                 cleanupVars>>

AReturn(result, path) ==
    /\ apc' = "returned"
    /\ aresult' = result
    /\ apath' = path

(* a request error escapes analyze_with_grok                               *)
AFallback_Raises(path, max_results) ==
    /\ apc' = IF path = "request_error" THEN "raised" ELSE "returned"
    /\ aresult' = process_data_without_grok(adata, AnalyzedVendor, max_results)
    /\ apath' = path

(* return process_data_without_grok(data, vendor_name, progress_callback,  *)
(* max_results)                                                            *)
AFallback(path, max_results) ==
    AReturn(process_data_without_grok(adata, AnalyzedVendor, max_results), path)

(* grok_analyzer.py:33-37: without an API key the fallback is called       *)
(* without max_results                                                     *)
AnalyzeNoKey ==
    /\ apc = "start"
    /\ ~akey
    /\ AFallback("no_key", FallbackDefaultMaxResults)
    /\ Emit(<<Stage("PREPARING")>> \o FallbackEvents)
    /\ UNCHANGED <<adata, amax, akey, aretry, apartial, acalls, acallback, dns_cache,
                   analyzeRest>>

(* grok_analyzer.py:39-214: structure validation of every item builds      *)
(* partial_results, then the hosts of simplified_data are looked up (the   *)
(* lookups decide only what is sent to the service; the HTTP stage needs   *)
(* more than 5 items)                                                      *)
AnalyzePrepare ==
    /\ apc = "start"
    /\ akey
    /\ ~PreparationThrows(adata)
    /\ apartial' = PartialResults(adata, AnalyzedVendor, <<>>)
    /\ LET lookups == SimplifiedHosts(adata, AnalyzedVendor) \ DOMAIN dns_cache
       IN \E answers \in [lookups -> BOOLEAN] : dns_cache' = answers @@ dns_cache
    /\ apc' = "attempt"
    /\ Emit(PrepareEvents(adata, AnalyzedVendor))
    /\ UNCHANGED <<adata, amax, akey, aretry, aresult, apath, acalls, acallback,
                   analyzeRest>>

(* grok_analyzer.py:53-55, 431-436: the first loop raises inside the try;  *)
(* the handler reports ERROR and returns what the fallback makes           *)
AnalyzePrepareRaises ==
    /\ apc = "start"
    /\ akey
    /\ PreparationThrows(adata)
    /\ AFallback("preparation", amax)
    /\ Emit(<<Stage("PREPARING")>> \o ExceptEvents)
    /\ UNCHANGED <<adata, amax, akey, aretry, apartial, acalls, acallback, dns_cache,
                   analyzeRest>>

(* one pass of "for retry in range(max_retries)" (grok_analyzer.py:310-360)*)
ApiAttempt ==
    /\ apc = "attempt"
    /\ \E outcome \in AttemptOutcomes :
          /\ acalls' = Append(acalls, [timeout |-> CurrentTimeout(aretry),
                                       outcome |-> outcome])
          /\ Emit(AttemptEvents(aretry, outcome)
                    \o (IF AfterAttempt(aretry, outcome) # "fallback" THEN <<>>
                        ELSE IF outcome = "Exception" THEN ExceptEvents
                        ELSE FallbackEvents))
          /\ LET next == AfterAttempt(aretry, outcome)
             IN IF next = "attempt"
                THEN /\ aretry' = aretry + 1
                     /\ UNCHANGED <<apc, aresult, apath>>
                ELSE IF next = "parse"
                THEN /\ apc' = "parse"
                     /\ UNCHANGED <<aretry, aresult, apath>>
                ELSE /\ AFallback(FallbackPath(outcome), amax)
                     /\ UNCHANGED aretry
    /\ UNCHANGED <<adata, amax, akey, apartial, acallback, dns_cache, analyzeRest>>

(* grok_analyzer.py:375-429: the 200 response is parsed and what the parse *)
(* yields is returned; partial_results is not looked at                    *)
ParseResponse ==
    /\ apc = "parse"
    /\ \E answer \in ServiceAnswers :
          AReturn(parse_grok_response(answer, AnalyzedVendor, amax, <<>>), "parsed")
    /\ Emit(<<Stage("FINALIZING"), Stage("COMPLETE")>>)
    /\ UNCHANGED <<adata, amax, akey, aretry, apartial, acalls, acallback, dns_cache,
                   analyzeRest>>

(* grok_analyzer.py:376-386, 431-436: response.json() raises, before       *)
(* FINALIZING is reported, or the parse raises, after it                   *)
ParseRaise ==
    /\ apc = "parse"
    /\ AFallback("exception", amax)
    /\ \E reported \in {<<>>, <<Stage("FINALIZING")>>} : Emit(reported \o ExceptEvents)
    /\ UNCHANGED <<adata, amax, akey, aretry, apartial, acalls, acallback, dns_cache,
                   analyzeRest>>

AnalyzerInit ==
    /\ ProgramInit
    /\ source_data = <<>>
    /\ combined_data = <<>>
    /\ combine_done = FALSE
    /\ ResultsIdle
    /\ BlockIdle
    /\ CleanupIdle
    /\ adata \in DataLists
    /\ amax \in MaxResultsArgs
    /\ akey \in BOOLEAN
    /\ apc = "start"
    /\ aretry = 0
    /\ apartial = <<>>
    /\ aresult = <<>>
    /\ apath = ""
    /\ acalls = <<>>
    /\ acallback \in BOOLEAN
    /\ aevents = <<>>

AnalyzerNext ==
    \/ AnalyzeNoKey
    \/ AnalyzePrepare
    \/ AnalyzePrepareRaises
    \/ ApiAttempt
    \/ ParseResponse
    \/ ParseRaise

AnalyzerSpec == AnalyzerInit /\ [][AnalyzerNext]_vars

(***************************************************************************)
(* The blocking calls the worker makes for one job, on their own: the HTTP *)
(* probe (url_validator.py:317-324), the DNS lookup of every URL that is   *)
(* formatted (url_validator.py:262-264, called from app.py:884) and the    *)
(* request to the analysis service (app.py:1089-1094).  A dependency may   *)
(* stop answering at any time.                                             *)
(***************************************************************************)
Dependencies == {"dns", "http", "analysis"}

HttpProbeTimeout == 2
SuggestionTimeout == 60

(* the timeout argument of a call: <<>> when the call passes none          *)
NoTimeout == <<>>

(* requests.head(url, timeout=timeout, ...)                                *)
HttpProbeCall == [kind |-> "http", timeout |-> <<HttpProbeTimeout>>]

(* socket.getaddrinfo(domain, None)                                        *)
DnsLookupCall == [kind |-> "dns", timeout |-> NoTimeout]

(* requests.post('https://api.x.ai/v1/chat/completions', timeout=60, ...)  *)
AnalysisCall == [kind |-> "analysis", timeout |-> <<SuggestionTimeout>>]

blockRest == <<clock, dns_cache, dns_cache_expiry, valVars, combineVars, mainVars,
               analyzeVars, cleanupVars>>

(* a dependency stops answering                                            *)
Hang ==
    /\ bpc # "idle"
    /\ \E d \in Dependencies \ hung : hung' = hung \cup {d}
    /\ UNCHANGED <<bpc, bcall, bjobs, burls, blockRest>>

(* job_id, vendor_name, max_results = app.job_queue.get()                  *)
BGet ==
    /\ bpc = "get"
    /\ bjobs > 0
    /\ bjobs' = bjobs - 1
    /\ \E n \in 0..MaxItems : burls' = n
    /\ bpc' = "sources"
    /\ UNCHANGED <<hung, bcall, blockRest>>

BCall(call) ==
    /\ bcall' = call
    /\ bpc' = "blocked"
    /\ UNCHANGED <<hung, bjobs, burls, blockRest>>

(* a source's analysis probes a URL                                        *)
BeginHttpProbe == bpc = "sources" /\ BCall(HttpProbeCall)

(* the sources have returned                                               *)
BSourcesReturn ==
    /\ bpc = "sources"
    /\ bpc' = "format"
    /\ UNCHANGED <<hung, bcall, bjobs, burls, blockRest>>

(* validate_url(url, validate_dns=True, validate_http=False) for the next  *)
(* item of combined_data                                                   *)
BeginDnsLookup == bpc = "format" /\ burls > 0 /\ BCall(DnsLookupCall)

(* generate_additional_suggestions sends its request                       *)
BeginSuggestions == bpc = "format" /\ burls = 0 /\ BCall(AnalysisCall)

(* the worker goes on after a call has returned or raised                  *)
BResume ==
    /\ bpc' = CASE bcall.kind = "http" -> "format"
                [] bcall.kind = "dns" -> "format"
                [] bcall.kind = "analysis" -> "task_done"
    /\ burls' = IF bcall.kind = "dns" THEN burls - 1 ELSE burls
    /\ UNCHANGED <<hung, bcall, bjobs, blockRest>>

(* the dependency answers                                                  *)
BAnswer ==
    /\ bpc = "blocked"
    /\ bcall.kind \notin hung
    /\ BResume

(* the timeout of the call expires: the call raises and its handler        *)
(* returns                                                                 *)
BTimeout ==
    /\ bpc = "blocked"
    /\ bcall.timeout # NoTimeout
    /\ BResume

(* app.job_queue.task_done()                                               *)
BTaskDone ==
    /\ bpc = "task_done"
    /\ bpc' = "get"
    /\ UNCHANGED <<hung, bcall, bjobs, burls, blockRest>>

BlockingInit ==
    /\ ProgramInit
    /\ source_data = <<>>
    /\ combined_data = <<>>
    /\ combine_done = FALSE
    /\ ResultsIdle
    /\ AnalyzeIdle
    /\ CleanupIdle
    /\ hung = {}
    /\ bpc = "get"
    /\ bcall = DnsLookupCall
    /\ bjobs = MaxItems
    /\ burls = 0

BlockingNext ==
    \/ Hang
    \/ BGet
    \/ BeginHttpProbe
    \/ BSourcesReturn
    \/ BeginDnsLookup
    \/ BeginSuggestions
    \/ BAnswer
    \/ BTimeout
    \/ BTaskDone

BlockingSpec == BlockingInit /\ [][BlockingNext]_vars

(***************************************************************************)
(* worker.py: process_vendor as far as it writes a job's status, and       *)
(* cleanup_old_jobs (worker.py:530-552), which the cleanup thread calls    *)
(* every 15 minutes.                                                       *)
(***************************************************************************)
WorkerJobIds == {"acme_1", "acme_2"}

Retention == 3600

(* the condition of the scan without the retention period                  *)
ShouldRemove_NoRetention(job, now) ==
    /\ job.status \in {"completed", "failed"}
    /\ HasKey(job, "end_time")
    /\ job.end_time # 0

(* job.get('status') in ['completed', 'failed'] and job.get('end_time')    *)
(* and now - job.get('end_time') > 3600                                    *)
ShouldRemove(job, now) ==
    /\ job.status \in {"completed", "failed"}
    /\ HasKey(job, "end_time")
    /\ job.end_time # 0
    /\ now - job.end_time > Retention

cleanupRest == <<dns_cache, dns_cache_expiry, valVars, combineVars, mainVars,
                 analyzeVars, blockVars>>

(* half a retention period passes                                          *)
CleanupTick ==
    /\ cpc # "off"
    /\ clock < (MaxElapse + 2) * (Retention \div 2)
    /\ clock' = clock + Retention \div 2
    /\ UNCHANGED <<cleanupVars, cleanupRest>>

(* worker.py:45-65: job_results[job_id] = {...}; job_logs[job_id] = []     *)
(* (a job id is handed to process_vendor once)                             *)
ProcessVendorStart(id) ==
    /\ cpc # "off"
    /\ id \notin DOMAIN worker_job_results
    /\ worker_job_results' =
          DictUpdate(worker_job_results,
                     (id :> [status |-> "processing", start_time |-> clock]))
    /\ worker_job_logs' = DictUpdate(worker_job_logs, (id :> <<>>))
    /\ UNCHANGED <<clock, to_remove, cpc, cremoved, cleanupRest>>

(* worker.py:468-501: the update to completed or to failed, and its log    *)
(* entry                                                                   *)
ProcessVendorEnd(id) ==
    /\ id \in DOMAIN worker_job_results
    /\ worker_job_results[id].status = "processing"
    /\ \E status \in {"completed", "failed"} :
          /\ worker_job_results' =
                [worker_job_results EXCEPT ![id] =
                    DictUpdate(@, [status |-> status, end_time |-> clock])]
          /\ worker_job_logs' =
                [worker_job_logs EXCEPT ![id] = Append(@, status)]
    /\ UNCHANGED <<clock, to_remove, cpc, cremoved, cleanupRest>>

(* worker.py:536-544: now = time.time() and the scan of job_results (a     *)
(* scan during which the table grows raises and deletes nothing)           *)
CleanupScan ==
    /\ cpc = "idle"
    /\ to_remove' = {id \in DOMAIN worker_job_results :
                        ShouldRemove(worker_job_results[id], clock)}
    /\ cpc' = "remove"
    /\ UNCHANGED <<clock, worker_job_results, worker_job_logs, cremoved, cleanupRest>>

(* worker.py:547-550: del job_results[job_id]; del job_logs[job_id]        *)
CleanupRemove ==
    /\ cpc = "remove"
    /\ \E id \in to_remove :
          /\ worker_job_results' = Remove(worker_job_results, id)
          /\ worker_job_logs' = IF id \in DOMAIN worker_job_logs
                                THEN Remove(worker_job_logs, id)
                                ELSE worker_job_logs
          /\ to_remove' = to_remove \ {id}
          /\ cremoved' = cremoved \cup {id}
    /\ UNCHANGED <<clock, cpc, cleanupRest>>

(* worker.py:552: the loop is through                                      *)
CleanupReturn ==
    /\ cpc = "remove"
    /\ to_remove = {}
    /\ cpc' = "idle"
    /\ UNCHANGED <<clock, worker_job_results, worker_job_logs, to_remove, cremoved,
                   cleanupRest>>

CleanupInit ==
    /\ ProgramInit
    /\ source_data = <<>>
    /\ combined_data = <<>>
    /\ combine_done = FALSE
    /\ ResultsIdle
    /\ AnalyzeIdle
    /\ BlockIdle
    /\ worker_job_results = <<>>
    /\ worker_job_logs = <<>>
    /\ to_remove = {}
    /\ cpc = "idle"
    /\ cremoved = {}

CleanupNext ==
    \/ CleanupTick
    \/ \E id \in WorkerJobIds : ProcessVendorStart(id) \/ ProcessVendorEnd(id)
    \/ CleanupScan
    \/ CleanupRemove
    \/ CleanupReturn

CleanupSpec == CleanupInit /\ [][CleanupNext]_vars

(***************************************************************************)
(* The claims.                                                             *)
(***************************************************************************)
Active(w) == wpc[w] # "get"

(* a step of the worker thread or of one of its callbacks                  *)
WorkerWrote == job_results' # job_results /\ rpc' = rpc

(* C1: every submission gets a job id that no earlier submission got, also *)
(* for the same vendor within one clock second; creating the job replaces  *)
(* no existing record.                                                     *)
C1_JobIdsUnique ==
    [][\A r \in Reqs :
          (rpc[r] = "idle" /\ rpc'[r] = "logs")
              => rjob'[r].job_id \notin DOMAIN job_results]_vars

(* C2: once a job's status is completed or failed, no write of the worker  *)
(* or of a callback changes it.                                            *)
C2_TerminalIsSink ==
    [][\A id \in DOMAIN job_results :
          (job_results[id].status \in Terminal /\ WorkerWrote)
              => job_results'[id].status = job_results[id].status]_vars

(* C3: the status of every job record is one of queued, processing,        *)
(* completed, failed.                                                      *)
C3_StatusInLifecycle ==
    \A id \in DOMAIN job_results : job_results[id].status \in Lifecycle

(* C4: while a job is not terminal, no write of the worker or of a         *)
(* callback lowers its progress step.                                      *)
C4_ProgressMonotonic ==
    [][\A id \in DOMAIN job_results :
          (job_results[id].status \notin Terminal /\ WorkerWrote)
              => job_results'[id].progress.step >= job_results[id].progress.step]_vars

(* C5: under fair scheduling every entry put on the queue is dequeued and  *)
(* its job reaches completed or failed, and the worker is back at the top  *)
(* of its loop after a job whose processing raised.                        *)
C5_QueuedJobsFinish ==
    /\ \A r \in Reqs :
          (r \in DOMAIN taken)
              ~> (/\ r \in DOMAIN taken
                  /\ taken[r] = 1
                  /\ \A w \in Workers : wjob[w].ticket # r
                  /\ job_results[rjob[r].job_id].status \in Terminal)
    /\ \A w \in Workers : (wpc[w] = "fail") ~> (wpc[w] = "get")

(* a job whose processing raised is failed and the worker waits at the top *)
(* of its loop again                                                       *)
C5_Witness ==
    \E r \in Reqs :
        /\ r \in DOMAIN taken
        /\ taken[r] = 1
        /\ job_results[rjob[r].job_id].status = "failed"
        /\ \A w \in Workers : wpc[w] = "get"

(* C6: when a source call raises, the remaining sources are still called   *)
(* and the job does not end failed.                                        *)
C6_SourceFailureTolerated ==
    [][\A w \in Workers :
          (wpc[w] \in {"vendor_site", "source"} /\ wpc'[w] # wpc[w])
              => wpc'[w] \in {"begin_searches", "source", "enhanced_metrics"}]_vars

(* C7: the failure handler sets status failed and error to the exception   *)
(* message, writes no results, and leaves progress, metrics and the log    *)
(* entries written so far in place.                                        *)
C7_FailureKeepsRecord ==
    [][\A w \in Workers :
          (wpc[w] = "fail" /\ wpc'[w] # "fail")
              => LET id == Cur(w)
                     old == job_results[id]
                     new == job_results'[id]
                 IN /\ new.status = "failed"
                    /\ new.error = wexc[w]
                    /\ HasKey(new, "results") =>
                          (HasKey(old, "results") /\ new.results = old.results)
                    /\ HasKey(new, "progress") /\ new.progress = old.progress
                    /\ HasKey(new, "metrics") /\ new.metrics = old.metrics
                    /\ Len(job_logs'[id]) >= Len(job_logs[id])
                    /\ SubSeq(job_logs'[id], 1, Len(job_logs[id])) = job_logs[id]]_vars

(* a job failed in the search stage, with progress and log entries kept    *)
C7_Witness ==
    \E w \in Workers :
        /\ wpc[w] = "task_done"
        /\ wexc[w] = "source error"
        /\ job_results[Cur(w)].status = "failed"
        /\ job_results[Cur(w)].error = "source error"
        /\ job_results[Cur(w)].progress.step >= 40
        /\ Len(job_logs[Cur(w)]) >= 3

(* C8: a job record has a results field only if its status is completed.   *)
C8_ResultsOnlyWhenCompleted ==
    \A id \in DOMAIN job_results :
        HasKey(job_results[id], "results") => job_results[id].status = "completed"

(* C9: what a status query returns is the record and log of the job as     *)
(* they were together at one instant while the query ran.                  *)
C9_NoTornRead ==
    ppc = "serialize" => Serialized \in window

(* C10: no two executions of the pipeline are active for one job id, no    *)
(* queue entry is taken twice, and an entry that was taken is no longer    *)
(* in the queue.                                                           *)
C10_OneExecutionPerJob ==
    /\ \A w1, w2 \in Workers :
          (w1 # w2 /\ Active(w1) /\ Active(w2)) => Cur(w1) # Cur(w2)
    /\ \A t \in DOMAIN taken : taken[t] <= 1
    /\ \A k \in 1..Len(job_queue) : taken[job_queue[k].ticket] = 0

(* one entry of a job id is being processed while another entry of the     *)
(* same id waits in the queue                                              *)
C10_Witness ==
    \E w \in Workers :
        /\ Active(w)
        /\ taken[wjob[w].ticket] = 1
        /\ \E k \in 1..Len(job_queue) : job_queue[k].job_id = Cur(w)

(* a job id waiting in the queue, or held by the worker                    *)
QueuedIds == {job_queue[k].job_id : k \in 1..Len(job_queue)}
ProcessedIds == {Cur(w) : w \in {x \in Workers : Active(x)}}

(* C11: every job id that is in the queue or being processed is a key of   *)
(* the job table and of the log table, so a status query for it finds the  *)
(* job and the worker never takes an id that either table lacks.           *)
C11_QueuedJobIsKnown ==
    \A id \in QueuedIds \cup ProcessedIds :
        HasKey(job_results, id) /\ HasKey(job_logs, id)

(* a status query has found a job that still waits in the queue            *)
C11_Witness ==
    /\ ppc = "logs"
    /\ pjob \in QueuedIds
    /\ presp.status = "queued"

(* the steps of request r inside analyze                                   *)
Rejected(r) == rpc[r] = "idle" /\ rpc'[r] = "rejected"
Created(r) == rpc[r] = "idle" /\ rpc'[r] = "logs"
Enqueued(r) == rpc[r] = "put" /\ rpc'[r] = "log"

(* C12: a submission without a vendor name changes neither table nor the   *)
(* queue; every other submission adds one record, of status queued, to the *)
(* job table and one entry to the queue, and its put never waits for the   *)
(* worker.                                                                 *)
C12_SubmissionCreatesOneJob ==
    [][\A r \in Reqs :
          /\ Rejected(r) => UNCHANGED <<job_results, job_logs, job_queue>>
          /\ Created(r) =>
                /\ Cardinality(DOMAIN job_results') = Cardinality(DOMAIN job_results) + 1
                /\ job_results'[rjob'[r].job_id].status = "queued"
                /\ job_queue' = job_queue
          /\ Enqueued(r) =>
                /\ Len(job_queue') = Len(job_queue) + 1
                /\ job_results' = job_results
          /\ rpc[r] = "put" => ENABLED AnalyzePut(r)]_vars

(* a status query answers for an id that is not in the job table           *)
AnswersUnknown == ppc = "idle" /\ ppc' # "idle" /\ pjob' \notin DOMAIN job_results
(* a status query that found no job returns                                *)
ReturnsUnknown == ppc \in {"notfound", "invalid"} /\ ppc' = "idle"

IsPrefix(a, b) == Len(a) <= Len(b) /\ SubSeq(b, 1, Len(a)) = a

(* the most recent k entries of a log, oldest first                        *)
MostRecent(l, k) == [i \in 1..k |-> l[Len(l) - k + i]]

(* C14: the logs a status query returns are the most recent min(50, n) of  *)
(* the job's n entries in their order, and no step removes or reorders an  *)
(* entry of an existing job's log: the log before the step is a prefix of  *)
(* the log after it.                                                       *)
C14_LogsAppendOnly ==
    [][/\ (ppc = "logs" /\ ppc' = "serialize" /\ HasKey(job_logs, pjob)) =>
            presp'.logs = MostRecent(job_logs[pjob], Min(LogWindow, Len(job_logs[pjob])))
       /\ \A id \in DOMAIN job_logs :
            /\ HasKey(job_logs', id)
            /\ IsPrefix(job_logs[id], job_logs'[id])]_vars

(* thread t holds the result its call of validate_url returned             *)
Returned(t) == vpc[t] = "returned"

(* C15: a result whose structure is invalid has dns_valid and http_valid   *)
(* false and its call made neither a DNS lookup nor an HTTP probe; a call  *)
(* whose requested DNS tier failed makes no HTTP probe and leaves          *)
(* http_valid false.                                                       *)
C15_TierShortCircuit ==
    \A t \in Callers :
        vpc[t] # "raised" =>
            /\ ~vres[t].structure_valid =>
                  /\ ~vres[t].dns_valid /\ ~vres[t].http_valid
                  /\ ~vdone[t].dns_lookup /\ ~vdone[t].http_probe
                  /\ ~vdone[t].dns_cached /\ ~vdone[t].http_cached
            /\ (Returned(t) /\ vargs[t].validate_dns /\ ~vres[t].dns_valid) =>
                  /\ ~vres[t].http_valid
                  /\ ~vdone[t].http_probe /\ ~vdone[t].http_cached

(* both tiers were requested; one call returned after its DNS lookup       *)
(* failed, another for a URL of invalid structure                          *)
C15_Witness ==
    \E t, u \in Callers :
        /\ Returned(t) /\ Returned(u)
        /\ vargs[t].validate_dns /\ vargs[t].validate_http /\ ~vargs[t].clean_only
        /\ vdone[t].dns_lookup /\ ~vres[t].dns_valid
        /\ vargs[u].validate_dns /\ vargs[u].validate_http
        /\ vargs[u].url = "example.com" /\ ~vres[u].structure_valid

(* C16: outside clean_only mode is_valid is structure_valid, and dns_valid *)
(* when the DNS tier was requested, and http_valid when the HTTP tier was  *)
(* requested.                                                              *)
C16_ValidFromRequestedTiers ==
    \A t \in Callers :
        (Returned(t) /\ ~vargs[t].clean_only) =>
            vres[t].is_valid =
                (/\ vres[t].structure_valid
                 /\ vargs[t].validate_dns => vres[t].dns_valid
                 /\ vargs[t].validate_http => vres[t].http_valid)

(* a call that asked for the HTTP tier alone is valid although its         *)
(* dns_valid is false                                                      *)
C16_Witness ==
    \E t \in Callers :
        /\ Returned(t) /\ ~vargs[t].clean_only
        /\ ~vargs[t].validate_dns /\ vargs[t].validate_http
        /\ vres[t].http_valid /\ ~vres[t].dns_valid /\ vres[t].is_valid

(* the call of thread t made no lookup and no probe: what it returned of   *)
(* the tiers came from the caches                                          *)
ServedFromCache(t) ==
    /\ vdone[t].dns_cached \/ vdone[t].http_cached
    /\ ~vdone[t].dns_lookup /\ ~vdone[t].http_probe

(* C17: when a thread repeats a call of validate_url with the same URL and *)
(* the same tiers and the repeated call is served from the cache, it       *)
(* returns the same structure_valid, dns_valid, http_valid, is_valid,      *)
(* cleaned_url and reason as the call before.                              *)
C17_RepeatedCallSameResult ==
    \A t \in Callers :
        (Returned(t) /\ vprev[t] # NoCall /\ ServedFromCache(t)) =>
            vres[t] = vprev[t].res

(* thread t performs the DNS lookup, respectively the HTTP probe           *)
LooksUp(t) == vpc[t] = "dns_lookup" /\ vpc'[t] # "dns_lookup"
Probes(t) == vpc[t] = "http_probe" /\ vpc'[t] # "http_probe"

(* C18: a DNS lookup (an HTTP probe) leaves its host (its URL) in the      *)
(* value map whatever the outcome was, and is the only one for that host   *)
(* within a TTL; a validation that finds the host cached returns the       *)
(* cached outcome.                                                         *)
C18_LookupOutcomeCached ==
    [][\A t \in Callers :
          /\ LooksUp(t) =>
                /\ vres[t].cleaned_url \in DOMAIN dns_cache'
                /\ vres[t].cleaned_url \notin DOMAIN looked.dns
          /\ Probes(t) =>
                /\ HttpUrl(vres[t].cleaned_url) \in DOMAIN http_cache'
                /\ HttpUrl(vres[t].cleaned_url) \notin DOMAIN looked.http
          /\ (vpc[t] = "dns_hit" /\ vpc'[t] \notin {"dns_hit", "raised"}) =>
                vres'[t].dns_valid = dns_cache[vres[t].cleaned_url]
          /\ (vpc[t] = "http_hit" /\ vpc'[t] \notin {"http_hit", "raised"}) =>
                vres'[t].http_valid = http_cache[HttpUrl(vres[t].cleaned_url)]]_vars

(* C19: with two threads inside validate_url no call raises; a thread that *)
(* has found a host in a value map finds its expiry entry too, and a       *)
(* thread that removes an expired entry finds it still there.              *)
C19_ConcurrentCallsSafe ==
    \A t \in Callers :
        /\ vpc[t] # "raised"
        /\ vpc[t] = "dns_expiry" => vres[t].cleaned_url \in DOMAIN dns_cache_expiry
        /\ vpc[t] = "http_expiry" =>
              HttpUrl(vres[t].cleaned_url) \in DOMAIN http_cache_expiry
        /\ vpc[t] = "dns_del" => vres[t].cleaned_url \in DOMAIN dns_cache
        /\ vpc[t] = "http_del" => HttpUrl(vres[t].cleaned_url) \in DOMAIN http_cache

(* the normalized name of a record: trimmed and lower-cased                *)
Normalized(item) == Strip(Lower(item.name))

(* C20: whatever the sources returned, no two records of the combined      *)
(* list have the same normalized name.                                     *)
C20_OneRecordPerName ==
    combine_done =>
        \A j, k \in 1..Len(combined_data) :
            j # k => Normalized(combined_data[j]) # Normalized(combined_data[k])

(* the jobs whose record says completed                                    *)
CompletedIds == {id \in DOMAIN job_results : job_results[id].status = "completed"}

(* C21: the results of a completed job never contain a record whose        *)
(* customer name equals the job's vendor name ignoring case, whatever the  *)
(* sources and the suggestion service returned.                            *)
C21_NeverTheVendorItself ==
    \A id \in CompletedIds :
        \A k \in 1..Len(job_results[id].results) :
            Lower(job_results[id].results[k].customer_name)
                # Lower(job_results[id].vendor_name)

(* C22: every record in the results of a completed job, the appended       *)
(* suggestions included, has a URL whose structure and DNS validation      *)
(* passed.                                                                 *)
C22_ResultsPassedDns ==
    \A id \in CompletedIds :
        \A k \in 1..Len(job_results[id].results) :
            /\ job_results[id].results[k].validation.structure_valid
            /\ job_results[id].results[k].validation.dns_valid

(* C23: a combined record without a URL gets the URL synthesized from its  *)
(* name, that URL is validated (structure, then DNS), and the record is in *)
(* the results of the completed job exactly if the validation passed.      *)
C23_MissingUrlIsSynthesized ==
    \A w \in Workers :
        (wpc[w] = "task_done" /\ Cur(w) \in CompletedIds) =>
            \A k \in 1..Len(wdata[w].combined) :
                LET item == wdata[w].combined[k]
                    host == CleanedUrl(SynthesizedUrl(item.name))
                    results == job_results[Cur(w)].results
                IN item.url = "" =>
                      /\ host \in DOMAIN dns_cache
                      /\ (\E j \in 1..Len(results) :
                              results[j].customer_name = item.name) <=> dns_cache[host]

(* analyze_with_grok has returned or raised                                *)
AnalyzeEnded == apc \in {"returned", "raised"}

(* every request sent to the service ended in one of the outcomes          *)
AllCalls(outcomes) == \A k \in 1..Len(acalls) : acalls[k].outcome \in outcomes

(* C24: when no request to the analysis service succeeds (each one times   *)
(* out, fails in transport or is answered with a status other than 200, or *)
(* no API key is set), analyze_with_grok does not raise and returns, for a *)
(* non-empty data list, what process_data_without_grok makes of the data.  *)
C24_ServiceFailureFallsBack ==
    (AnalyzeEnded /\ Len(adata) >= 1
        /\ AllCalls({"Timeout", "RequestException", "non200"})) =>
        /\ apc = "returned"
        /\ aresult = process_data_without_grok(adata, AnalyzedVendor,
                        IF akey THEN amax ELSE FallbackDefaultMaxResults)

C24_Witness ==
    /\ apc = "returned"
    /\ apath = "request_error"
    /\ Len(acalls) = 2
    /\ acalls[1].outcome = "non200"
    /\ aresult # <<>>

(* all three attempts of one invocation timed out                          *)
ThreeTimeouts ==
    AnalyzeEnded /\ Len(acalls) = 3 /\ AllCalls({"Timeout"}) /\ Len(adata) >= 1

(* C25 as claimed: after three timeouts the returned list is non-empty for *)
(* every data list with at least one record.                               *)
C25_TimeoutsGiveNonEmpty == ThreeTimeouts => (apc = "returned" /\ aresult # <<>>)

(* a record the fallback keeps: named, not the vendor itself, with a URL   *)
(* (its own or the synthesized one) of valid structure                     *)
Usable(item) ==
    /\ item.name # ""
    /\ Lower(item.name) # Lower(AnalyzedVendor)
    /\ StructureValid(IF item.url # "" THEN item.url ELSE SynthesizedUrl(item.name))

(* C25 amended: after three timeouts analyze_with_grok returns the         *)
(* fallback's list, which is non-empty exactly if the data holds a record  *)
(* with a name other than the vendor's and a URL of valid structure.       *)
C25_TimeoutsGiveFallback ==
    ThreeTimeouts =>
        /\ apc = "returned"
        /\ apath = "exhausted"
        /\ (aresult # <<>>) <=> (\E k \in 1..Len(adata) : Usable(adata[k]))

C25_Witness ==
    /\ ThreeTimeouts
    /\ Len(adata) = 2
    /\ Len(aresult) = 1
    /\ ~Usable(adata[1])

(* C26: one invocation sends at most 3 requests; request k waits 40*k      *)
(* seconds; a timeout or a status other than 200 on request k < 3 is       *)
(* followed by request k+1 and on request 3 by the fallback; another       *)
(* request error is followed by the fallback at once; a 200 response ends  *)
(* the requests.                                                           *)
C26_AttemptLadder ==
    LET n == Len(acalls)
    IN /\ n <= 3
       /\ \A k \in 1..n : acalls[k].timeout = 40 * k
       /\ \A k \in 1..(n - 1) : acalls[k].outcome \in {"Timeout", "non200"}
       /\ (n >= 1 /\ acalls[n].outcome \in {"Timeout", "non200"}) =>
              IF n < 3 THEN apc = "attempt"
              ELSE apc = "returned" /\ apath = "exhausted"
       /\ (n >= 1 /\ acalls[n].outcome = "RequestException") =>
              (apc = "returned" /\ apath = "request_error")
       /\ (n >= 1 /\ acalls[n].outcome = "200") =>
              (apc \in {"parse", "returned"} /\ apath \in {"", "parsed", "exception"})

C26_Witness ==
    /\ Len(acalls) = 3
    /\ acalls[1].outcome = "Timeout"
    /\ acalls[2].outcome = "non200"
    /\ acalls[3].timeout = 120
    /\ apath = "exhausted"

(* C27: whatever return statement analyze_with_grok leaves by, the list it *)
(* returns has at most max_results records.                                *)
C27_AtMostMaxResults == apc = "returned" => Len(aresult) <= amax

(* C28: when the 200 response is parsed and partial_results is non-empty,  *)
(* the returned list is not empty: an empty parse is replaced by the       *)
(* partial results.                                                        *)
C28_PartialReplacesEmptyParse ==
    (apc = "returned" /\ apath = "parsed" /\ apartial # <<>>) => aresult # <<>>

(* C29: every call the worker blocks in while it processes a job (DNS      *)
(* lookup, HTTP probe, request to the analysis service) passes an explicit *)
(* timeout, so that a dependency that never answers cannot keep the worker *)
(* in the call for ever.                                                   *)
C29_BlockingCallsHaveTimeout ==
    bpc = "blocked" => bcall.timeout # NoTimeout

(* a step of cleanup_old_jobs                                              *)
CleanupStep == cpc' # cpc \/ to_remove' # to_remove

InSourceOrder == Flatten(source_data)

(* the places of InSourceOrder whose record is the first of its name, and  *)
(* all places of the vendor site's list                                    *)
FirstSeen ==
    {k \in 1..Len(InSourceOrder) :
        \/ k <= Len(source_data[1])
        \/ \A j \in 1..(k - 1) :
              Lower(InSourceOrder[j].name) # Lower(InSourceOrder[k].name)}

(* the records at the given places, in the order of the places             *)
RECURSIVE RecordsAt(_, _, _)
RecordsAt(seq, places, k) ==
    IF k > Len(seq) THEN <<>>
    ELSE (IF k \in places THEN <<seq[k]>> ELSE <<>>) \o RecordsAt(seq, places, k + 1)

(* C31: the combined list holds the records that were seen first, in the   *)
(* order of the sources and, within a source, in the source's own order;   *)
(* dropping duplicates moves no record that is kept.                       *)
C31_FirstSeenOrder ==
    combine_done => combined_data = RecordsAt(InSourceOrder, FirstSeen, 1)

C31_Witness ==
    /\ combine_done
    /\ source_data[1] = <<>>
    /\ source_data[2] # <<>>
    /\ source_data[3] # <<>>
    /\ Len(combined_data) = 2
    /\ combined_data[1] = source_data[2][1]

(* item.get('confidence', 0)                                               *)
Confidence(item) == Get(item, "confidence", 0)

(* C32: of the records of one name the combined list keeps one of the      *)
(* highest confidence: a later record of higher confidence replaces the    *)
(* one kept so far.                                                        *)
C32_HighestConfidenceKept ==
    combine_done =>
        \A k \in 1..Len(combined_data) :
            \A j \in 1..Len(InSourceOrder) :
                Lower(InSourceOrder[j].name) = Lower(combined_data[k].name)
                    => Confidence(combined_data[k]) >= Confidence(InSourceOrder[j])

(* analyze_with_grok returned what process_data_without_grok made          *)
ReturnedFallback ==
    /\ apc = "returned"
    /\ apath \in {"no_key", "preparation", "exhausted", "request_error", "exception"}

(* the URL process_data_without_grok validates for an item                 *)
FallbackUrl(item) == IF item.url # "" THEN item.url ELSE SynthesizedUrl(item.name)

(* the first item of the data with the given name, ignoring case           *)
FirstOfName(name) ==
    adata[CHOOSE k \in 1..Len(adata) :
            /\ Lower(adata[k].name) = Lower(name)
            /\ \A j \in 1..(k - 1) : Lower(adata[j].name) # Lower(name)]

(* C33: the list the fallback returns has no two records whose names are   *)
(* equal ignoring case, and the URL kept for a name is that of the name's  *)
(* first occurrence in the data.                                           *)
C33_FallbackOneRecordPerName ==
    ReturnedFallback =>
        /\ \A j, k \in 1..Len(aresult) :
              j # k => Lower(aresult[j].customer_name) # Lower(aresult[k].customer_name)
        /\ \A k \in 1..Len(aresult) :
              aresult[k].customer_url
                  = CleanedUrl(FallbackUrl(FirstOfName(aresult[k].customer_name)))

(* the passes of the retry loop report 60, 70 and 80                       *)
IsAttemptEvent(event) ==
    event.stage = "" /\ \E retry \in 0..(max_retries - 1) : event.percent = 60 + retry * 10

EventsAt(stage) == {k \in 1..Len(aevents) : aevents[k] = Stage(stage)}

(* C34: with a progress callback PREPARING is the first event, every event *)
(* of an API attempt comes after API_CALL and before any FINALIZING, and   *)
(* when the call has ended COMPLETE has been reported exactly once, as the *)
(* last event; without a callback nothing is reported.                     *)
C34_StageOrder ==
    /\ aevents # <<>> => acallback /\ aevents[1] = Stage("PREPARING")
    /\ \A k \in 1..Len(aevents) :
          IsAttemptEvent(aevents[k]) =>
              /\ \E j \in EventsAt("API_CALL") : j < k
              /\ \A j \in EventsAt("FINALIZING") : k < j
    /\ EventsAt("COMPLETE") \subseteq {Len(aevents)}
    /\ (AnalyzeEnded /\ acallback) => EventsAt("COMPLETE") = {Len(aevents)}

(* the third attempt failed and the fallback reported COMPLETE             *)
C34_Witness ==
    /\ AnalyzeEnded /\ acallback
    /\ Len(acalls) = max_retries
    /\ apath = "exhausted"
    /\ aevents[Len(aevents)] = Stage("COMPLETE")
    /\ \E k \in 1..Len(aevents) : aevents[k] = Percent(80)

(* C36: analyze_with_grok raises exactly when the preparation of the       *)
(* candidates throws; the error then reaches the caller and no fallback    *)
(* result is returned.                                                     *)
C36_PreparationErrorSurfaces ==
    AnalyzeEnded => (apc = "raised" <=> (akey /\ PreparationThrows(adata)))

(* the metrics keys written at submission (app.py:1250-1256)               *)
SubmissionKeys == DOMAIN NewJobRecord("", DefaultMaxResults, 0).metrics

(* C35: no step overwrites, resets or removes a metrics key of a job that  *)
(* was written at submission, and the job keeps its metrics mapping; a     *)
(* source's update touches the source's own keys only.                     *)
C35_MetricsKeysKept ==
    [][\A id \in DOMAIN job_results \cap DOMAIN job_results' :
          HasKey(job_results[id], "metrics") =>
              /\ HasKey(job_results'[id], "metrics")
              /\ \A key \in SubmissionKeys \cap DOMAIN job_results[id].metrics :
                    /\ key \in DOMAIN job_results'[id].metrics
                    /\ job_results'[id].metrics[key] = job_results[id].metrics[key]]_vars

(* C37: the results stored for a job hold at most max_results records,     *)
(* scraped records and suggestions together, where max_results is the      *)
(* submitted value clamped to 1..100, and 20 when it is not an integer.    *)
C37_AtMostMaxResultsStored ==
    results_pc = "stored" =>
        LET submitted == form_max_results
            max_results == IF ~submitted.isInt THEN 20
                           ELSE IF submitted.val < 1 THEN 1
                           ELSE IF submitted.val > 100 THEN 100
                           ELSE submitted.val
        IN Len(formatted_results) <= max_results

(* two records were scraped and one was asked for                          *)
C37_Witness ==
    /\ results_pc = "stored"
    /\ form_max_results = [isInt |-> TRUE, val |-> 0]
    /\ Len(combined_data) = 2
    /\ \A k \in 1..2 : combined_data[k].url # "" /\ StructureValid(combined_data[k].url)
                          /\ dns_cache[CleanedUrl(combined_data[k].url)]
    /\ Len(formatted_results) = 1

(* the workers that have taken an entry and not yet called task_done()     *)
Processing == {w \in Workers : wpc[w] # "get"}

C39_QueuedEntryFirst ==
    \A id \in DOMAIN job_logs :
        job_logs[id] # <<>> =>
            job_logs[id][1] = LogEntry("info", "Added to processing queue")

(* C40: whatever the URL and the flags, clean_only included, a result of   *)
(* validate_url that is valid has a valid structure and a non-empty        *)
(* cleaned URL.                                                            *)
C40_ValidHasStructure ==
    \A t \in Callers :
        (vpc[t] = "returned" /\ vres[t].is_valid) =>
            /\ vres[t].structure_valid
            /\ vres[t].cleaned_url \notin {None, ""}
====
